---- MODULE Spec2Model ----
(***************************************************************************)
(* A model of the distributed, health-aware rate limiter: the admission    *)
(* pipeline (RateLimitMiddleware.dispatch), the rate limit service, the    *)
(* limit policy, the abuse sub-limiter and the shared store client with    *)
(* its circuit breaker, as state machines over a shared Redis store.       *)
(*                                                                         *)
(* Time is the integer unix second every time.time() of the code is cut    *)
(* to. All instances and the store read one clock.                         *)
(***************************************************************************)
EXTENDS Integers, Sequences, FiniteSets, TLC

(***************************************************************************)
(* Bounds of the model.                                                    *)
(***************************************************************************)
Horizon == 1            \* seconds the clock may move past StartTime
MaxFaults == 1          \* store calls that may fail while the store is up
FallbackCap == 1        \* fallback admissions counted per window key
MaxLimit == 3           \* largest limit value of a drawn tier descriptor
MaxAbuseCount == 12     \* no abuse counter is incremented beyond this
MaxFailureCount == 6    \* no breaker counts more failures than this
MaxTtl == 1             \* largest ttl_seconds of a health write
MaxReloads == 1         \* reloads of the configuration after the start

(***************************************************************************)
(* Program constants.                                                      *)
(***************************************************************************)
SecondsPerMinute == 60
FailureThreshold == 5
ResetTimeout == 60
HealthCacheTtl == 2
MaxAttempts == 10
AbuseWindowMinutes == 5
BlockDurationMinutes == 15
OpDeadlineSeconds == 1

MinKeyLen == 10           \* _is_valid_format: len(api_key) < 10
MaxKeyLen == 200          \* _is_valid_format: len(api_key) > 200
NoExpiry == -1
None == "<None>"

Max(a, b) == IF a >= b THEN a ELSE b

\* the clock when the model starts: the last second of a window
StartTime == 2 * SecondsPerMinute - 1

(***************************************************************************)
(* Text: a Python str is a tuple of one-character strings.                 *)
(***************************************************************************)
RECURSIVE LStrip(_, _)
LStrip(s, chars) ==
    IF s # <<>> /\ Head(s) \in chars THEN LStrip(Tail(s), chars) ELSE s

RECURSIVE RStrip(_, _)
RStrip(s, chars) ==
    IF s # <<>> /\ s[Len(s)] \in chars
    THEN RStrip(SubSeq(s, 1, Len(s) - 1), chars)
    ELSE s

Whitespace == {" ", "\t", "\n", "\r"}

Strip(s) == RStrip(LStrip(s, Whitespace), Whitespace)

StartsWith(s, p) == Len(p) <= Len(s) /\ SubSeq(s, 1, Len(p)) = p

EndsWith(s, p) ==
    Len(p) <= Len(s) /\ SubSeq(s, Len(s) - Len(p) + 1, Len(s)) = p

\* a normalisation that keeps the trailing slashes
NormalizePathKeep(path) == path

\* path.rstrip('/') or '/'
NormalizePath(path) ==
    LET stripped == RStrip(path, {"/"})
    IN IF stripped = <<>> THEN <<"/">> ELSE stripped

PathExcludedBy(path, excluded) ==
    LET normalized_path == NormalizePath(path)
        normalized_excluded == NormalizePath(excluded)
    IN \/ normalized_path = normalized_excluded
       \/ /\ EndsWith(excluded, <<"/", "*">>)
          /\ LET prefix == SubSeq(excluded, 1, Len(excluded) - 2)
                 normalized_prefix == NormalizePath(prefix)
             IN \/ StartsWith(normalized_path, normalized_prefix \o <<"/">>)
                \/ normalized_path = normalized_prefix

ShouldExcludePath(path, exclude_paths) ==
    \E i \in 1..Len(exclude_paths) : PathExcludedBy(path, exclude_paths[i])

\* the exclusion list main.py hands to the middleware
ExcludePaths ==
    << <<"/", "h", "e", "a", "l", "t", "h">>,
       <<"/">>,
       <<"/", "d", "o", "c", "s">>,
       <<"/", "r", "e", "d", "o", "c">>,
       <<"/", "o", "p", "e", "n", "a", "p", "i", ".", "j", "s", "o", "n">>,
       <<"/", "f", "a", "v", "i", "c", "o", "n", ".", "i", "c", "o">>,
       <<"/", "a", "d", "m", "i", "n", "/", "*">> >>

PathApi == <<"/", "a", "p", "i">>
PathHealth == <<"/", "h", "e", "a", "l", "t", "h", "/">>
PathHealthz == <<"/", "h", "e", "a", "l", "t", "h", "z">>
PathRoot == <<"/">>
PathDocs == <<"/", "d", "o", "c", "s", "/", "/">>
PathAdmin == <<"/", "a", "d", "m", "i", "n">>
PathAdminSlash == <<"/", "a", "d", "m", "i", "n", "/">>
PathAdminUsers == <<"/", "a", "d", "m", "i", "n", "/", "u">>
PathAdministrator == <<"/", "a", "d", "m", "i", "n", "i">>
PathAdminStar == <<"/", "a", "d", "m", "i", "n", "/", "*">>

(***************************************************************************)
(* Configuration: tiers, users and API keys.                               *)
(***************************************************************************)
TierTable ==
    [free       |-> [base_limit |-> 1, burst_limit |-> 2,
                     degraded_limit |-> 1, window_minutes |-> 1],
     pro        |-> [base_limit |-> 2, burst_limit |-> 3,
                     degraded_limit |-> 2, window_minutes |-> 1],
     enterprise |-> [base_limit |-> 3, burst_limit |-> 3,
                     degraded_limit |-> 3, window_minutes |-> 1]]

\* the descriptor check_rate_limit falls back to for a tier without one
FallbackTierConfig ==
    [base_limit |-> 10, burst_limit |-> 10,
     degraded_limit |-> 2, window_minutes |-> 1]

\* config_manager.get_tier_config: found is FALSE for None
GetTierConfig(tier) ==
    IF tier \in DOMAIN TierTable
    THEN [found |-> TRUE, config |-> TierTable[tier]]
    ELSE [found |-> FALSE, config |-> FallbackTierConfig]

Users == {"alice", "bob"}

UserToTier == [alice |-> "free", bob |-> "pro"]

KeyAlice == <<"k", "e", "y", "_", "a", "l", "i", "c", "e", "1">>
KeyAlice2 == <<"k", "e", "y", "_", "a", "l", "i", "c", "e", "2">>
KeyBob == <<"k", "e", "y", "_", "b", "o", "b", "_", "0", "1">>
KeyUnknown == <<"n", "o", "s", "u", "c", "h", "k", "e", "y", "0">>
KeyShort == <<"s", "h", "o", "r", "t">>
KeyBlank == <<" ", " ">>

ApiKeyToUser ==
    (KeyAlice :> "alice") @@ (KeyAlice2 :> "alice") @@ (KeyBob :> "bob")

\* a request's X-API-Key header: absent, or a str
NoHeader == [present |-> FALSE, value |-> <<>>]
Header(s) == [present |-> TRUE, value |-> s]

\* the two maps UserTierManager._load_users copies from the configuration
ConfiguredDirectory ==
    [api_key_to_user |-> ApiKeyToUser, user_to_tier |-> UserToTier]

(***************************************************************************)
(* The configuration document and its validation.                          *)
(***************************************************************************)
\* a variant of TierConfig that does not compare burst_limit to base_limit
TierConfigAcceptsAnyBurst(d) ==
    /\ d.base_limit > 0
    /\ d.burst_limit > 0
    /\ d.degraded_limit > 0
    /\ d.window_minutes > 0

\* TierConfig(**d) constructs: every field is gt=0, and burst_limit is
\* compared to a base_limit that passed its own check
TierConfigAccepts(d) ==
    /\ d.base_limit > 0
    /\ d.burst_limit > 0
    /\ (d.base_limit > 0 => d.burst_limit >= d.base_limit)
    /\ d.degraded_limit > 0
    /\ d.window_minutes > 0

\* the values of UserTier
RequiredTiers == {"free", "pro", "enterprise"}

\* RateLimitConfig(**data) constructs
RateLimitConfigAccepts(data) ==
    /\ \A t \in DOMAIN data.tiers : TierConfigAccepts(data.tiers[t])
    /\ RequiredTiers \subseteq DOMAIN data.tiers
    /\ \A u \in DOMAIN data.users : data.users[u] \in DOMAIN data.tiers
    /\ \A k \in DOMAIN data.api_keys :
          data.api_keys[k] \in DOMAIN data.users

KeyDemoFree ==
    <<"d", "e", "m", "o", "_", "f", "r", "e", "e", "_", "k", "e", "y",
      "_", "1", "2", "3">>
KeyDemoFree2 ==
    <<"d", "e", "m", "o", "_", "f", "r", "e", "e", "_", "k", "e", "y",
      "_", "4", "5", "6">>
KeyDemoPro ==
    <<"d", "e", "m", "o", "_", "p", "r", "o", "_", "k", "e", "y", "_",
      "7", "8", "9">>
KeyDemoEnterprise ==
    <<"d", "e", "m", "o", "_", "e", "n", "t", "e", "r", "p", "r", "i",
      "s", "e", "_", "k", "e", "y", "_", "a", "b", "c">>

\* _get_default_config
DefaultConfig ==
    [tiers |->
        [free       |-> [base_limit |-> 10, burst_limit |-> 20,
                         degraded_limit |-> 2, window_minutes |-> 1],
         pro        |-> [base_limit |-> 100, burst_limit |-> 150,
                         degraded_limit |-> 100, window_minutes |-> 1],
         enterprise |-> [base_limit |-> 1000, burst_limit |-> 1000,
                         degraded_limit |-> 1000, window_minutes |-> 1]],
     users |-> [demo_free_user |-> "free", demo_pro_user |-> "pro",
                demo_enterprise_user |-> "enterprise"],
     api_keys |->
        (KeyDemoFree :> "demo_free_user")
          @@ (KeyDemoFree2 :> "demo_free_user")
          @@ (KeyDemoPro :> "demo_pro_user")
          @@ (KeyDemoEnterprise :> "demo_enterprise_user")]

\* the configuration the other specifications run with
ConfiguredConfig ==
    [tiers |-> TierTable, users |-> UserToTier, api_keys |-> ApiKeyToUser]

\* the file at config_path: absent, not JSON, or JSON holding data
AbsentDocument == [kind |-> "absent", data |-> ConfiguredConfig]
GarbledDocument == [kind |-> "garbled", data |-> ConfiguredConfig]
JsonDocument(data) == [kind |-> "json", data |-> data]

\* _load_config: the configuration it leaves in _config, and the branch
\* it took
LoadConfigResult(document) ==
    IF document.kind = "absent"
    THEN [config |-> DefaultConfig, outcome |-> "file_not_found"]
    ELSE IF document.kind = "garbled"
    THEN [config |-> DefaultConfig, outcome |-> "json_parse_error"]
    ELSE IF RateLimitConfigAccepts(document.data)
    THEN [config |-> document.data, outcome |-> "load_success"]
    ELSE [config |-> DefaultConfig, outcome |-> "load_error"]

\* a variant of _load_users that replaces the key map only
LoadUsersKeysOnly(d, config) ==
    [d EXCEPT !.api_key_to_user = config.api_keys]

\* _load_users: the two maps are assigned one after the other, with no
\* await between the assignments
LoadUsersResult(d, config) ==
    LET keys_assigned == [d EXCEPT !.api_key_to_user = config.api_keys]
    IN [keys_assigned EXCEPT !.user_to_tier = config.users]

\* config_manager.get_tier_config on a configuration, with the descriptor
\* check_rate_limit falls back to
TierConfigIn(config, tier) ==
    IF tier \in DOMAIN config.tiers THEN config.tiers[tier]
    ELSE FallbackTierConfig

EmptyMap == [x \in {} |-> None]

\* UserTierManager before its constructor ran
NoDirectory == [api_key_to_user |-> EmptyMap, user_to_tier |-> EmptyMap]

\* the process before config_manager is constructed, the file holding
\* document
Unstarted(document) ==
    [document |-> document, config |-> DefaultConfig, outcome |-> "none",
     users |-> FALSE, reloads |-> 0]

\* the process of the other specifications, started on ConfiguredConfig
ConfiguredBoot ==
    [document |-> JsonDocument(ConfiguredConfig),
     config |-> ConfiguredConfig, outcome |-> "load_success",
     users |-> TRUE, reloads |-> 0]

(***************************************************************************)
(* State.                                                                  *)
(***************************************************************************)
VARIABLES
    now,            \* the clock, in unix seconds
    storeUp,        \* environment: the store answers the calls it receives
    faultsLeft,     \* environment: calls that may still fail with the store up
    counters,       \* store: rate_limit:user:<u>:<window_start> keys
    healthKey,      \* store: the system:health hash
    abuse,          \* store: security:invalid_keys:<ip> keys
    blocked,        \* store: security:blocked_ip:<ip> keys
    breaker,        \* per instance: redis_client.circuit_breaker
    healthCache,    \* per instance: _health_cache and _last_health_check,
                    \* and the time get_system_health returned the value
    req,            \* the request handlers (dispatch calls) in flight
    last,           \* the request dispatch answers in this step, if any
    grants,         \* history: per window key, the script runs that
                    \* admitted, each with its count and limit
    fbAdmits,       \* history: per window key, the fallback admissions
    policy,         \* a call of _calculate_effective_limit on drawn arguments
    call,           \* the get_user_rate_limit_status call that is refused
                    \* or ends in this step, if any
    streak,         \* history: per instance, the get_user_rate_limit_status
                    \* calls that failed since the last one that succeeded
    write,          \* history: the last set_system_health call of the
                    \* current second, if any
    directory,      \* user_tier_manager: _api_key_to_user and _user_to_tier
    validated,      \* history: the validate_api_key call made in this
                    \* step, if any: its argument and how it ended
    boot            \* the configuration file, config_manager._config and
                    \* how far the process has started

vars == <<now, storeUp, faultsLeft, counters, healthKey, abuse, blocked,
          breaker, healthCache, req, last, grants, fbAdmits, policy,
          call, streak, write, directory, validated, boot>>

envVars == <<storeUp, faultsLeft>>

storeVars == <<counters, healthKey, abuse, blocked>>

histVars == <<grants, fbAdmits>>

statusVars == <<call, streak, write>>

sideVars == <<directory, validated, boot>>

(***************************************************************************)
(* Identity directory and API key validation.                              *)
(***************************************************************************)
AllowedChars ==
    {"a", "b", "c", "d", "e", "f", "g", "h", "i", "j", "k", "l", "m",
     "n", "o", "p", "q", "r", "s", "t", "u", "v", "w", "x", "y", "z",
     "A", "B", "C", "D", "E", "F", "G", "H", "I", "J", "K", "L", "M",
     "N", "O", "P", "Q", "R", "S", "T", "U", "V", "W", "X", "Y", "Z",
     "0", "1", "2", "3", "4", "5", "6", "7", "8", "9", "_", "-"}

\* a format check that looks at the characters only
IsValidFormatAnyLength(api_key) ==
    /\ api_key # <<>>
    /\ \A i \in 1..Len(api_key) : api_key[i] \in AllowedChars

IsValidFormat(api_key) ==
    /\ api_key # <<>>
    /\ ~(Len(api_key) < MinKeyLen \/ Len(api_key) > MaxKeyLen)
    /\ \A i \in 1..Len(api_key) : api_key[i] \in AllowedChars

\* UserTierManager.get_user_tier: found is FALSE for None
NotFound == [found |-> FALSE, user_id |-> None, tier |-> None]

\* a lookup that answers the free tier for every user it finds
GetUserTierAlwaysFree(api_key) ==
    IF api_key \notin DOMAIN directory.api_key_to_user THEN NotFound
    ELSE [found |-> TRUE, user_id |-> directory.api_key_to_user[api_key],
          tier |-> "free"]

\* a variant of get_user_tier that takes every key for an identity of its own
GetUserTierPerKey(api_key) ==
    IF api_key \notin DOMAIN directory.api_key_to_user THEN NotFound
    ELSE LET user_id == IF api_key = KeyAlice2 THEN "bob"
                        ELSE directory.api_key_to_user[api_key]
         IN [found |-> TRUE, user_id |-> user_id,
             tier |-> directory.user_to_tier[user_id]]

GetUserTier(api_key) ==
    IF api_key \notin DOMAIN directory.api_key_to_user THEN NotFound
    ELSE LET user_id == directory.api_key_to_user[api_key]
         IN IF user_id \notin DOMAIN directory.user_to_tier THEN NotFound
            ELSE [found |-> TRUE, user_id |-> user_id,
                  tier |-> directory.user_to_tier[user_id]]

ApiKeyError(status_code, error_code) ==
    [ok |-> FALSE, status_code |-> status_code, error_code |-> error_code,
     user_id |-> None, tier |-> None]

ValidateApiKey(header) ==
    IF ~header.present \/ header.value = <<>>
    THEN ApiKeyError(401, "MISSING_API_KEY")
    ELSE LET api_key == Strip(header.value)
         IN IF api_key = <<>> THEN ApiKeyError(401, "EMPTY_API_KEY")
            ELSE IF ~IsValidFormat(api_key)
            THEN ApiKeyError(400, "MALFORMED_API_KEY")
            ELSE IF ~GetUserTier(api_key).found
            THEN ApiKeyError(401, "INVALID_API_KEY")
            ELSE [ok |-> TRUE, status_code |-> 0, error_code |-> None,
                  user_id |-> GetUserTier(api_key).user_id,
                  tier |-> GetUserTier(api_key).tier]

(***************************************************************************)
(* Limit policy.                                                           *)
(***************************************************************************)
CalculateEffectiveLimit(tier, tier_config, system_health) ==
    IF system_health = "NORMAL" THEN tier_config.burst_limit
    ELSE IF system_health = "DEGRADED"
    THEN IF tier = "free" THEN tier_config.degraded_limit
         ELSE IF tier \in {"pro", "enterprise"} THEN tier_config.base_limit
         ELSE tier_config.base_limit
    ELSE tier_config.base_limit

(***************************************************************************)
(* Circuit breaker.                                                        *)
(***************************************************************************)
NewBreaker == [state |-> "closed", failure_count |-> 0, last_failure_time |-> 0]

\* a variant of can_execute that lets the call through once reset_timeout
\* seconds have passed, the last of them included
CanExecuteEager(cb, t) ==
    IF cb.state = "closed" THEN [ok |-> TRUE, cb |-> cb]
    ELSE IF cb.state = "open"
    THEN IF t - cb.last_failure_time >= ResetTimeout
         THEN [ok |-> TRUE, cb |-> [cb EXCEPT !.state = "half-open"]]
         ELSE [ok |-> FALSE, cb |-> cb]
    ELSE [ok |-> TRUE, cb |-> cb]

\* a variant of can_execute that never lets a call through an open breaker
CanExecuteStuck(cb, t) ==
    IF cb.state = "closed" THEN [ok |-> TRUE, cb |-> cb]
    ELSE IF cb.state = "open" THEN [ok |-> FALSE, cb |-> cb]
    ELSE [ok |-> TRUE, cb |-> cb]

\* can_execute: the answer, and the breaker after the call
CanExecute(cb, t) ==
    IF cb.state = "closed" THEN [ok |-> TRUE, cb |-> cb]
    ELSE IF cb.state = "open"
    THEN IF t - cb.last_failure_time > ResetTimeout
         THEN [ok |-> TRUE, cb |-> [cb EXCEPT !.state = "half-open"]]
         ELSE [ok |-> FALSE, cb |-> cb]
    ELSE [ok |-> TRUE, cb |-> cb]

\* a variant of on_success that leaves the state as it is
OnSuccessKeepState(cb) == [cb EXCEPT !.failure_count = 0]

\* a variant of on_failure that opens one failure later
OnFailureLate(cb, t) ==
    LET count == cb.failure_count + 1
    IN [state |-> IF count > FailureThreshold THEN "open" ELSE cb.state,
        failure_count |-> count,
        last_failure_time |-> t]

OnSuccess(cb) == [cb EXCEPT !.failure_count = 0, !.state = "closed"]

OnFailure(cb, t) ==
    LET count == cb.failure_count + 1
    IN [state |-> IF count >= FailureThreshold THEN "open" ELSE cb.state,
        failure_count |-> count,
        last_failure_time |-> t]

(***************************************************************************)
(* The store's scripts. A key is [exists, count, expireAt]; the store      *)
(* drops a key once its clock reaches expireAt.                            *)
(***************************************************************************)
NoKey == [exists |-> FALSE, count |-> 0, expireAt |-> NoExpiry]

\* a window that never rolls over
WindowStartFrozen(current_time, window) == (StartTime \div window) * window

WindowStartOf(current_time, window) == (current_time \div window) * window

\* a variant of the script that rejects only above the limit
RateLimitScriptInclusive(entry, window, limit, current_time, clock) ==
    LET window_start == WindowStartOf(current_time, window)
        current == IF entry.exists THEN entry.count ELSE 0
    IN IF current > limit
       THEN [entry |-> IF entry.exists /\ entry.expireAt = NoExpiry
                       THEN [entry EXCEPT !.expireAt = clock + window]
                       ELSE entry,
             allowed |-> FALSE,
             count |-> current,
             reset_time |-> window_start + window]
       ELSE [entry |-> [exists |-> TRUE, count |-> current + 1,
                        expireAt |-> clock + window + 1],
             allowed |-> TRUE,
             count |-> current + 1,
             reset_time |-> window_start + window]

\* a variant of the script that answers the count it read, as a GET
\* followed by a separate INCR would
RateLimitScriptReadThenIncr(entry, window, limit, current_time, clock) ==
    LET window_start == WindowStartOf(current_time, window)
        current == IF entry.exists THEN entry.count ELSE 0
    IN IF current >= limit
       THEN [entry |-> IF entry.exists /\ entry.expireAt = NoExpiry
                       THEN [entry EXCEPT !.expireAt = clock + window]
                       ELSE entry,
             allowed |-> FALSE,
             count |-> current,
             reset_time |-> window_start + window]
       ELSE [entry |-> [exists |-> TRUE, count |-> current + 1,
                        expireAt |-> clock + window + 1],
             allowed |-> TRUE,
             count |-> current,
             reset_time |-> window_start + window]

\* a variant of the script that drops the key when it rejects
RateLimitScriptDropping(entry, window, limit, current_time, clock) ==
    LET window_start == WindowStartOf(current_time, window)
        current == IF entry.exists THEN entry.count ELSE 0
    IN IF current >= limit
       THEN [entry |-> NoKey,
             allowed |-> FALSE,
             count |-> current,
             reset_time |-> window_start + window]
       ELSE [entry |-> [exists |-> TRUE, count |-> current + 1,
                        expireAt |-> clock + window + 1],
             allowed |-> TRUE,
             count |-> current + 1,
             reset_time |-> window_start + window]

\* a variant of the script whose EXPIRE has no extra second
RateLimitScriptNoSlack(entry, window, limit, current_time, clock) ==
    LET window_start == WindowStartOf(current_time, window)
        current == IF entry.exists THEN entry.count ELSE 0
    IN IF current >= limit
       THEN [entry |-> IF entry.exists /\ entry.expireAt = NoExpiry
                       THEN [entry EXCEPT !.expireAt = clock + window]
                       ELSE entry,
             allowed |-> FALSE,
             count |-> current,
             reset_time |-> window_start + window]
       ELSE [entry |-> [exists |-> TRUE, count |-> current + 1,
                        expireAt |-> clock + window],
             allowed |-> TRUE,
             count |-> current + 1,
             reset_time |-> window_start + window]

\* _rate_limit_script on the window key's entry; clock is the store's time
RateLimitScript(entry, window, limit, current_time, clock) ==
    LET window_start == WindowStartOf(current_time, window)
        current == IF entry.exists THEN entry.count ELSE 0
    IN IF current >= limit
       THEN [entry |-> IF entry.exists /\ entry.expireAt = NoExpiry
                       THEN [entry EXCEPT !.expireAt = clock + window]
                       ELSE entry,
             allowed |-> FALSE,
             count |-> current,
             reset_time |-> window_start + window]
       ELSE [entry |-> [exists |-> TRUE, count |-> current + 1,
                        expireAt |-> clock + window + 1],
             allowed |-> TRUE,
             count |-> current + 1,
             reset_time |-> window_start + window]

Instances == {1, 2}
IPs == {"1.2.3.4"}
Slots == {1, 2}

\* the instants the clock visits
TimePoints == StartTime..(StartTime + Horizon)

WindowStarts ==
    {WindowStartOf(t, SecondsPerMinute) : t \in TimePoints}

(***************************************************************************)
(* Request handler records.                                                *)
(***************************************************************************)
NoIdent ==
    [ok |-> FALSE, status_code |-> 0, error_code |-> None,
     user_id |-> None, tier |-> None]

NoDecision ==
    [made |-> FALSE, allowed |-> FALSE, remaining |-> 0, reset_time |-> 0,
     limit |-> 0, fallback |-> FALSE, count |-> 0, window_start |-> 0]

NoResponse ==
    [status |-> 0, error_code |-> None, forwarded |-> FALSE,
     limit_hdr |-> -1, remaining_hdr |-> -1, reset_hdr |-> -1,
     retry_after |-> -1, request_id_hdr |-> FALSE]

\* what _get_system_health_cached returned to a request: the status, whether
\* it came from the cache, the time the read began (current_time), the time
\* get_system_health had returned the value, and the value's updated_by
NoHealthRead ==
    [status |-> None, hit |-> FALSE, read_at |-> 0, fetched_at |-> 0,
     updated_by |-> None]

\* a dispatch call: where it stands and its locals
IdleReq ==
    [pc |-> "idle", inst |-> 0, ip |-> "", path |-> <<>>,
     ident |-> NoIdent, t0 |-> 0, limit |-> 0, health |-> NoHealthRead]

\* an answered request: t0 is the time its last store call read, t the
\* time of the answer; bump and block tell how check_invalid_key_attempts
\* and block_ip ended, within what check_invalid_key_attempts returned
NoneServed ==
    [served |-> FALSE, inst |-> 0, ip |-> "", path |-> <<>>,
     excluded |-> FALSE,
     ident |-> NoIdent, t0 |-> 0, health |-> NoHealthRead,
     bump |-> "none", within |-> TRUE,
     block |-> "none", dec |-> NoDecision, resp |-> NoResponse, t |-> 0]

Served(rq, resp, t) ==
    [NoneServed EXCEPT !.served = TRUE, !.inst = rq.inst, !.ip = rq.ip,
                       !.path = rq.path,
                       !.ident = rq.ident, !.t0 = rq.t0,
                       !.health = rq.health, !.resp = resp, !.t = t]

\* a validate_api_key call: the header value it was given and the
\* (user_id, tier) it returned or the APIKeyError it raised
NoValidation == [made |-> FALSE, header |-> NoHeader, ident |-> NoIdent]

\* a get_user_rate_limit_status call as its caller saw it end: before is
\* the breaker when the step began, started the time the call was let
\* through, outcome "ok", "fail" or "circuit_open"
NoCall ==
    [made |-> FALSE, inst |-> 0, outcome |-> "none",
     before |-> NewBreaker, started |-> 0, t |-> 0]

\* a set_system_health call: its arguments, the time it ran and how it
\* ended
NoWrite ==
    [made |-> FALSE, status |-> None, ttl_seconds |-> 0, outcome |-> "none",
     t |-> 0]

\* the response of call_next, returned as it is for an excluded path
UpstreamResponse ==
    [NoResponse EXCEPT !.status = 200, !.forwarded = TRUE]

\* _create_blocked_ip_response, and the 429 of _handle_invalid_api_key
BlockedIpResponse ==
    [NoResponse EXCEPT !.status = 429, !.error_code = "IP_BLOCKED",
                       !.retry_after = 900, !.request_id_hdr = TRUE]

\* the JSONResponse _handle_invalid_api_key builds from the APIKeyError
ApiKeyErrorResponse(ident) ==
    [NoResponse EXCEPT !.status = ident.status_code,
                       !.error_code = ident.error_code,
                       !.request_id_hdr = TRUE]

\* dispatch's except Exception branch
InternalErrorResponse ==
    [NoResponse EXCEPT !.status = 500, !.error_code = "INTERNAL_ERROR",
                       !.request_id_hdr = TRUE]

\* a variant of the rejection that sends reset_time - now as it is
RateLimitedResponseUnclamped(dec, t) ==
    LET retry_after == dec.reset_time - t
    IN [NoResponse EXCEPT !.status = 429,
                          !.error_code = "RATE_LIMIT_EXCEEDED",
                          !.limit_hdr = dec.limit,
                          !.remaining_hdr = 0,
                          !.reset_hdr = dec.reset_time,
                          !.retry_after = retry_after,
                          !.request_id_hdr = TRUE]

\* _create_rate_limited_response, built at time t
RateLimitedResponse(dec, t) ==
    LET retry_after == Max(1, dec.reset_time - t)
    IN [NoResponse EXCEPT !.status = 429,
                          !.error_code = "RATE_LIMIT_EXCEEDED",
                          !.limit_hdr = dec.limit,
                          !.remaining_hdr = 0,
                          !.reset_hdr = dec.reset_time,
                          !.retry_after = retry_after,
                          !.request_id_hdr = TRUE]

\* call_next, then _add_rate_limit_headers and X-Request-ID
AdmittedResponse(dec) ==
    [NoResponse EXCEPT !.status = 200, !.forwarded = TRUE,
                       !.limit_hdr = dec.limit,
                       !.remaining_hdr = dec.remaining,
                       !.reset_hdr = dec.reset_time,
                       !.request_id_hdr = TRUE]

\* a variant of the result that leaves this request out of remaining
StoreDecisionBefore(res, effective_limit, window_start) ==
    [made |-> TRUE, allowed |-> res.allowed,
     remaining |-> Max(0, effective_limit - (res.count - 1)),
     reset_time |-> res.reset_time, limit |-> effective_limit,
     fallback |-> FALSE, count |-> res.count, window_start |-> window_start]

\* RateLimitResult of a store answer
StoreDecision(res, effective_limit, window_start) ==
    [made |-> TRUE, allowed |-> res.allowed,
     remaining |-> Max(0, effective_limit - res.count),
     reset_time |-> res.reset_time, limit |-> effective_limit,
     fallback |-> FALSE, count |-> res.count, window_start |-> window_start]

\* the fallback RateLimitResult of check_rate_limit's except branch
FallbackDecision(effective_limit, tier_config, t) ==
    [made |-> TRUE, allowed |-> TRUE, remaining |-> 1,
     reset_time |-> t + tier_config.window_minutes * SecondsPerMinute,
     limit |-> effective_limit, fallback |-> TRUE, count |-> 0,
     window_start |->
        WindowStartOf(t, tier_config.window_minutes * SecondsPerMinute)]

\* dispatch after rate_limit_service.check_rate_limit returned dec at time t
RespondTo(dec, t) ==
    IF ~dec.allowed THEN RateLimitedResponse(dec, t) ELSE AdmittedResponse(dec)

(***************************************************************************)
(* Store calls through _execute_with_circuit_breaker. A call ends "ok",    *)
(* "fail" (no answer: the store is down, or the call is lost or late),     *)
(* "circuit_open" (refused by the breaker before it is sent) or in one of  *)
(* the partial ways named at each operation: part of it ran in the store.  *)
(***************************************************************************)
PartialOutcomes == {"lost_reply", "fail_after_incr", "fail_between"}

\* how a call the store receives now may end
Reached(partial) ==
    IF ~storeUp THEN {"fail"}
    ELSE {"ok"} \cup (IF faultsLeft > 0 THEN {"fail"} \cup partial ELSE {})

\* how a call that a client with breaker cb starts now may end
CallOutcomes(cb, partial) ==
    IF CanExecute(cb, now).ok THEN Reached(partial) ELSE {"circuit_open"}

\* the breaker cb after a call that started and ended now
BreakerAfter(cb, outcome) ==
    IF outcome = "circuit_open" THEN cb
    ELSE IF outcome = "ok" THEN OnSuccess(CanExecute(cb, now).cb)
    ELSE OnFailure(CanExecute(cb, now).cb, now)

\* the store after a call that ended that way
EnvAfter(outcome) ==
    /\ faultsLeft' = IF storeUp /\ outcome \in {"fail"} \cup PartialOutcomes
                     THEN faultsLeft - 1 ELSE faultsLeft
    /\ UNCHANGED storeUp

(***************************************************************************)
(* Store operations of RedisClient, each on the key it touches.            *)
(***************************************************************************)
\* is_ip_blocked: an exception answers False
\* a block check that finds no source blocked
IsIpBlockedResultNever(outcome, entry) == FALSE

IsIpBlockedResult(outcome, entry) ==
    IF outcome = "ok" THEN entry.exists ELSE FALSE

\* an INCR that counts each attempt twice
IncrEntryTwice(entry) ==
    IF entry.exists THEN [entry EXCEPT !.count = entry.count + 2]
    ELSE [exists |-> TRUE, count |-> 2, expireAt |-> NoExpiry]

\* INCR of the pipeline in increment_security_counter
IncrEntry(entry) ==
    IF entry.exists THEN [entry EXCEPT !.count = entry.count + 1]
    ELSE [exists |-> TRUE, count |-> 1, expireAt |-> NoExpiry]

\* increment_security_counter: INCR, then EXPIRE on the first increment;
\* "fail_after_incr" is an exception between the two round trips
IncrementSecurityCounter(entry, ttl_seconds, clock, outcome) ==
    IF outcome \in {"circuit_open", "fail"}
    THEN [entry |-> entry, count |-> 0, raised |-> TRUE]
    ELSE LET incremented == IncrEntry(entry)
         IN IF outcome = "fail_after_incr"
            THEN [entry |-> incremented, count |-> 0, raised |-> TRUE]
            ELSE [entry |-> IF incremented.count = 1
                            THEN [incremented EXCEPT
                                    !.expireAt = clock + ttl_seconds]
                            ELSE incremented,
                  count |-> incremented.count,
                  raised |-> FALSE]

\* a check that already refuses the max_attempts-th attempt
CheckInvalidKeyAttemptsResultEager(raised, count) ==
    IF raised THEN TRUE
    ELSE IF count >= MaxAttempts THEN FALSE ELSE TRUE

\* SecurityRateLimiter.check_invalid_key_attempts of user_service, the one
\* the middleware constructs: True is "within the limit"
CheckInvalidKeyAttemptsResult(raised, count) ==
    IF raised THEN TRUE
    ELSE IF count > MaxAttempts THEN FALSE ELSE TRUE

\* SETEX of block_ip
BlockEntry(duration_seconds, clock) ==
    [exists |-> TRUE, count |-> 1, expireAt |-> clock + duration_seconds]

HealthAbsent ==
    [exists |-> FALSE, status |-> None, timestamp |-> 0,
     updated_by |-> None, expireAt |-> NoExpiry]

EmptyHealthData == [has |-> FALSE, status |-> None, updated_by |-> None]

\* a variant of get_system_health that answers DEGRADED when it cannot read
GetSystemHealthDataCautious(outcome, key) ==
    IF outcome # "ok"
    THEN [has |-> TRUE, status |-> "DEGRADED", updated_by |-> "fallback"]
    ELSE IF ~key.exists
    THEN [has |-> TRUE, status |-> "NORMAL", updated_by |-> "system"]
    ELSE [has |-> TRUE, status |-> key.status, updated_by |-> key.updated_by]

\* RedisClient.get_system_health: the dict it returns
GetSystemHealthData(outcome, key) ==
    IF outcome # "ok"
    THEN [has |-> TRUE, status |-> "NORMAL", updated_by |-> "fallback"]
    ELSE IF ~key.exists
    THEN [has |-> TRUE, status |-> "NORMAL", updated_by |-> "system"]
    ELSE [has |-> TRUE, status |-> key.status, updated_by |-> key.updated_by]

\* health_data.get("status", SystemHealth.NORMAL)
StatusOf(data) == IF data.status = None THEN "NORMAL" ELSE data.status

\* HSET key updated_by of set_system_health
HsetUpdatedBy(key, updated_by) ==
    IF key.exists THEN [key EXCEPT !.updated_by = updated_by]
    ELSE [exists |-> TRUE, status |-> None, timestamp |-> 0,
          updated_by |-> updated_by, expireAt |-> NoExpiry]

\* a health script that never sets an expiry
SystemHealthScriptNoExpire(key, new_status, ttl, clock) ==
    IF key.exists
    THEN [key EXCEPT !.status = new_status, !.timestamp = clock]
    ELSE [exists |-> TRUE, status |-> new_status, timestamp |-> clock,
          updated_by |-> None, expireAt |-> NoExpiry]

\* _system_health_script, run by the store at time clock with that time
\* as its timestamp argument
SystemHealthScript(key, new_status, ttl, clock) ==
    LET written == IF key.exists
                   THEN [key EXCEPT !.status = new_status,
                                    !.timestamp = clock]
                   ELSE [exists |-> TRUE, status |-> new_status,
                         timestamp |-> clock, updated_by |-> None,
                         expireAt |-> NoExpiry]
    IN IF ttl > 0 THEN [written EXCEPT !.expireAt = clock + ttl]
       ELSE written

\* the health in force in the store
StoredHealth(key) ==
    IF key.exists /\ key.status # None THEN key.status ELSE "NORMAL"

\* what the store holds of an entry once its clock shows t
Expire(entry, absent, t) ==
    IF entry.exists /\ entry.expireAt # NoExpiry /\ entry.expireAt <= t
    THEN absent ELSE entry

(***************************************************************************)
(* The admission pipeline: RateLimitMiddleware.dispatch, one action per    *)
(* stretch of it that ends where the handler waits for the store.          *)
(***************************************************************************)
TierConfigOf(tier) == GetTierConfig(tier).config

WindowSecondsOf(tier) == TierConfigOf(tier).window_minutes * SecondsPerMinute

\* one more fallback admission on a window key
CountFallback(user, window_start) ==
    [fbAdmits EXCEPT ![user][window_start] =
        IF @ < FallbackCap THEN @ + 1 ELSE @]

\* check_rate_limit once the health is known, up to the start of the EVAL;
\* cb and cache are the breaker and the health cache of the instance by
\* then. With the breaker open the call raises at once and check_rate_limit
\* answers its fallback.
RateCheckStart(r, rq0, system_health, cb, cache, hit) ==
    LET rq == [rq0 EXCEPT !.health =
                  [status |-> system_health, hit |-> hit,
                   read_at |-> IF hit THEN now ELSE cache.last_check,
                   fetched_at |-> cache.fetched_at,
                   updated_by |-> cache.data.updated_by]]
        i == rq.inst
        tier == rq.ident.tier
        tier_config == TierConfigOf(tier)
        effective_limit ==
            CalculateEffectiveLimit(tier, tier_config, system_health)
        ce == CanExecute(cb, now)
        fallback == FallbackDecision(effective_limit, tier_config, now)
    IN /\ healthCache' = [healthCache EXCEPT ![i] = cache]
       /\ breaker' = [breaker EXCEPT ![i] = ce.cb]
       /\ IF ~ce.ok
          THEN /\ req' = [req EXCEPT ![r] = IdleReq]
               /\ last' = [Served(rq, RespondTo(fallback, now), now)
                             EXCEPT !.dec = fallback]
               /\ fbAdmits' = CountFallback(rq.ident.user_id,
                                            fallback.window_start)
          ELSE /\ req' = [req EXCEPT ![r] =
                    [rq EXCEPT !.pc = "rate_eval", !.t0 = now,
                               !.limit = effective_limit]]
               /\ last' = NoneServed
               /\ UNCHANGED fbAdmits

\* a hit test that still trusts a value exactly HealthCacheTtl old
CacheFreshInclusive(cache, current_time) ==
    cache.data.has /\ current_time - cache.last_check <= HealthCacheTtl

\* the hit test of _get_system_health_cached
CacheFresh(cache, current_time) ==
    cache.data.has /\ current_time - cache.last_check < HealthCacheTtl

\* _get_system_health_cached up to the fetch: a hit, a fetch refused by the
\* open breaker (get_system_health answers its fallback), or a fetch begun
HealthRead(r, rq, cb) ==
    LET i == rq.inst
        cache == healthCache[i]
        ce == CanExecute(cb, now)
        refused == GetSystemHealthData("circuit_open", healthKey)
    IN IF CacheFresh(cache, now)
       THEN RateCheckStart(r, rq, StatusOf(cache.data), cb, cache, TRUE)
       ELSE IF ~ce.ok
       THEN RateCheckStart(r, rq, StatusOf(refused), cb,
                           [data |-> refused, last_check |-> now,
                            fetched_at |-> now], FALSE)
       ELSE /\ breaker' = [breaker EXCEPT ![i] = ce.cb]
            /\ req' = [req EXCEPT ![r] =
                    [rq EXCEPT !.pc = "health_fetch", !.t0 = now]]
            /\ last' = NoneServed
            /\ UNCHANGED <<healthCache, fbAdmits>>

\* dispatch from its entry: the exclusion check, is_ip_blocked and
\* validate_api_key; a known key goes on to the health read
Arrive(r, i, ip, path, key) ==
    LET rq == [IdleReq EXCEPT !.inst = i, !.ip = ip, !.path = path]
    IN /\ req[r].pc = "idle"
       /\ IF ShouldExcludePath(path, ExcludePaths)
          THEN /\ last' = [Served(rq, UpstreamResponse, now)
                             EXCEPT !.excluded = TRUE]
               /\ UNCHANGED <<envVars, req, breaker, healthCache, fbAdmits>>
          ELSE \E outcome \in CallOutcomes(breaker[i], {}) :
                 LET cb == BreakerAfter(breaker[i], outcome)
                     ident == ValidateApiKey(key)
                 IN /\ EnvAfter(outcome)
                    /\ IF IsIpBlockedResult(outcome, blocked[ip])
                       THEN /\ last' = Served(rq, BlockedIpResponse, now)
                            /\ breaker' = [breaker EXCEPT ![i] = cb]
                            /\ UNCHANGED <<req, healthCache, fbAdmits>>
                       ELSE IF ~ident.ok
                       THEN /\ req' = [req EXCEPT ![r] =
                                 [rq EXCEPT !.pc = "abuse_check",
                                            !.ident = ident]]
                            /\ breaker' = [breaker EXCEPT ![i] = cb]
                            /\ last' = NoneServed
                            /\ UNCHANGED <<healthCache, fbAdmits>>
                       ELSE HealthRead(r, [rq EXCEPT !.ident = ident], cb)
       /\ UNCHANGED <<now, storeVars, grants, policy, statusVars, sideVars>>

\* _handle_invalid_api_key up to the answer of check_invalid_key_attempts
CheckInvalidKeyAttempts(r) ==
    LET rq == req[r]
        i == rq.inst
        entry == abuse[rq.ip]
    IN /\ rq.pc = "abuse_check"
       /\ \E outcome \in CallOutcomes(breaker[i], {"fail_after_incr"}) :
            LET res == IncrementSecurityCounter(
                           entry, AbuseWindowMinutes * SecondsPerMinute,
                           now, outcome)
                within == CheckInvalidKeyAttemptsResult(res.raised, res.count)
                bump == IF res.raised THEN "raised" ELSE "ok"
            IN /\ res.entry.count <= MaxAbuseCount
               /\ abuse' = [abuse EXCEPT ![rq.ip] = res.entry]
               /\ breaker' = [breaker EXCEPT ![i] =
                                BreakerAfter(breaker[i], outcome)]
               /\ EnvAfter(outcome)
               /\ IF ~within
                  THEN /\ req' = [req EXCEPT ![r] =
                                    [rq EXCEPT !.pc = "block_ip"]]
                       /\ last' = NoneServed
                  ELSE /\ req' = [req EXCEPT ![r] = IdleReq]
                       /\ last' = [Served(rq, ApiKeyErrorResponse(rq.ident),
                                          now)
                                     EXCEPT !.bump = bump, !.within = within]
       /\ UNCHANGED <<now, counters, healthKey, blocked, healthCache,
                      histVars, policy, statusVars, sideVars>>

\* block_ip, then the 429; an exception of block_ip reaches dispatch's except
BlockIp(r) ==
    LET rq == req[r]
        i == rq.inst
    IN /\ rq.pc = "block_ip"
       /\ \E outcome \in CallOutcomes(breaker[i], {}) :
            /\ blocked' = IF outcome = "ok"
                          THEN [blocked EXCEPT ![rq.ip] =
                                  BlockEntry(BlockDurationMinutes
                                             * SecondsPerMinute, now)]
                          ELSE blocked
            /\ breaker' = [breaker EXCEPT ![i] =
                             BreakerAfter(breaker[i], outcome)]
            /\ req' = [req EXCEPT ![r] = IdleReq]
            /\ last' = [Served(rq, IF outcome = "ok" THEN BlockedIpResponse
                                   ELSE InternalErrorResponse, now)
                          EXCEPT !.bump = "ok", !.within = FALSE,
                                 !.block = IF outcome = "ok" THEN "ok"
                                           ELSE "raised"]
            /\ EnvAfter(outcome)
       /\ UNCHANGED <<now, counters, healthKey, abuse, healthCache,
                      histVars, policy, statusVars, sideVars>>

\* the fetch returns: HGETALL answered, or an exception inside
\* get_system_health; the cache takes the dict and the time read before the
\* fetch, and check_rate_limit goes on
HealthFetch(r) ==
    LET rq == req[r]
        i == rq.inst
    IN /\ rq.pc = "health_fetch"
       /\ \E outcome \in Reached({}) :
            LET data == GetSystemHealthData(outcome, healthKey)
                cb == IF outcome = "ok" THEN OnSuccess(breaker[i])
                      ELSE OnFailure(breaker[i], now)
            IN /\ EnvAfter(outcome)
               /\ RateCheckStart(r, [rq EXCEPT !.t0 = 0], StatusOf(data),
                                 cb, [data |-> data, last_check |-> rq.t0,
                                      fetched_at |-> now], FALSE)
       /\ UNCHANGED <<now, storeVars, grants, policy, statusVars, sideVars>>

\* the EVAL of _rate_limit_script runs in the store with the time read
\* before it, and check_rate_limit and dispatch answer; "lost_reply" is a
\* script that ran while the client saw an exception
RateEval(r) ==
    LET rq == req[r]
        i == rq.inst
        user == rq.ident.user_id
        tier_config == TierConfigOf(rq.ident.tier)
        window == WindowSecondsOf(rq.ident.tier)
        window_start == WindowStartOf(rq.t0, window)
        res == RateLimitScript(counters[user][window_start], window,
                               rq.limit, rq.t0, now)
        fallback == FallbackDecision(rq.limit, tier_config, now)
    IN /\ rq.pc = "rate_eval"
       /\ \E outcome \in Reached({"lost_reply"}) :
            LET applied == outcome \in {"ok", "lost_reply"}
                dec == IF outcome = "ok"
                       THEN StoreDecision(res, rq.limit, window_start)
                       ELSE fallback
            IN /\ counters' = IF applied
                              THEN [counters EXCEPT
                                      ![user][window_start] = res.entry]
                              ELSE counters
               /\ grants' = IF applied /\ res.allowed
                            THEN [grants EXCEPT ![user][window_start] =
                                    Append(@, [count |-> res.count,
                                               limit |-> rq.limit,
                                               delivered |-> outcome = "ok"])]
                            ELSE grants
               /\ fbAdmits' = IF outcome = "ok" THEN fbAdmits
                              ELSE CountFallback(user, fallback.window_start)
               /\ breaker' = [breaker EXCEPT ![i] =
                    IF outcome = "ok" THEN OnSuccess(breaker[i])
                    ELSE OnFailure(breaker[i], now)]
               /\ EnvAfter(outcome)
               /\ req' = [req EXCEPT ![r] = IdleReq]
               /\ last' = [Served(rq, RespondTo(dec, now), now)
                             EXCEPT !.dec = dec]
       /\ UNCHANGED <<now, healthKey, abuse, blocked, healthCache, policy,
                      statusVars, sideVars>>

(***************************************************************************)
(* The administrative health write and the clock.                          *)
(***************************************************************************)
\* HealthService.set_system_health through the store client of instance i;
\* "fail_between" is an exception after the HSET of updated_by
SetSystemHealth(i, status, ttl_seconds, updated_by) ==
    /\ status \in {"NORMAL", "DEGRADED"}
    /\ \E outcome \in CallOutcomes(breaker[i],
                                   IF updated_by # None
                                   THEN {"fail_between"} ELSE {}) :
         LET first == IF updated_by # None
                      THEN HsetUpdatedBy(healthKey, updated_by)
                      ELSE healthKey
             second == SystemHealthScript(first, status, ttl_seconds, now)
             after == IF outcome = "ok" THEN second
                      ELSE IF outcome = "fail_between" THEN first
                      ELSE healthKey
         IN /\ healthKey' = after
            /\ breaker' = [breaker EXCEPT ![i] =
                             BreakerAfter(breaker[i], outcome)]
            /\ EnvAfter(outcome)
            /\ write' = [made |-> TRUE, status |-> status,
                         ttl_seconds |-> ttl_seconds,
                         outcome |-> outcome, t |-> now]
    /\ last' = NoneServed
    /\ UNCHANGED <<now, counters, abuse, blocked, healthCache, req,
                   histVars, policy, call, streak, sideVars>>

\* the store becomes unreachable
StoreFails ==
    /\ storeUp
    /\ storeUp' = FALSE
    /\ last' = NoneServed
    /\ call' = NoCall
    /\ UNCHANGED <<now, faultsLeft, storeVars, breaker, healthCache, req,
                   histVars, policy, streak, write, sideVars>>

\* the store answers again
StoreRecovers ==
    /\ ~storeUp
    /\ storeUp' = TRUE
    /\ last' = NoneServed
    /\ call' = NoCall
    /\ UNCHANGED <<now, faultsLeft, storeVars, breaker, healthCache, req,
                   histVars, policy, streak, write, sideVars>>

\* RedisClient.get_user_rate_limit_status of instance i, to the point
\* where _execute_with_circuit_breaker raises "Circuit breaker is open" or
\* the GET is sent
GetUserRateLimitStatus(r, i) ==
    LET ce == CanExecute(breaker[i], now)
    IN /\ req[r].pc = "idle"
       /\ breaker' = [breaker EXCEPT ![i] = ce.cb]
       /\ IF ce.ok
          THEN /\ req' = [req EXCEPT ![r] =
                    [IdleReq EXCEPT !.pc = "status_read", !.inst = i,
                                    !.t0 = now]]
               /\ call' = NoCall
          ELSE /\ call' = [made |-> TRUE, inst |-> i,
                           outcome |-> "circuit_open",
                           before |-> breaker[i], started |-> now,
                           t |-> now]
               /\ UNCHANGED req
       /\ last' = NoneServed
       /\ UNCHANGED <<now, envVars, storeVars, healthCache, histVars,
                      policy, streak, write, sideVars>>

\* the GET and the TTL of get_user_rate_limit_status are answered, or an
\* exception ends the call; the breaker records which
GetUserRateLimitStatusEnds(r) ==
    LET rq == req[r]
        i == rq.inst
    IN /\ rq.pc = "status_read"
       /\ \E outcome \in Reached({}) :
            LET cb == IF outcome = "ok" THEN OnSuccess(breaker[i])
                      ELSE OnFailure(breaker[i], now)
            IN /\ cb.failure_count <= MaxFailureCount
               /\ breaker' = [breaker EXCEPT ![i] = cb]
               /\ streak' = [streak EXCEPT ![i] =
                                IF outcome = "ok" THEN 0 ELSE @ + 1]
               /\ call' = [made |-> TRUE, inst |-> i, outcome |-> outcome,
                           before |-> breaker[i], started |-> rq.t0,
                           t |-> now]
               /\ EnvAfter(outcome)
       /\ req' = [req EXCEPT ![r] = IdleReq]
       /\ last' = NoneServed
       /\ UNCHANGED <<now, storeVars, healthCache, histVars, policy, write,
                      sideVars>>

\* the task awaiting get_user_rate_limit_status is cancelled while the GET
\* is in flight: CancelledError is raised at the yield of
\* _execute_with_circuit_breaker, whose handler catches Exception only, so
\* neither on_success nor on_failure runs
GetUserRateLimitStatusCancelled(r) ==
    LET rq == req[r]
    IN /\ rq.pc = "status_read"
       /\ call' = [made |-> TRUE, inst |-> rq.inst, outcome |-> "cancelled",
                   before |-> breaker[rq.inst], started |-> rq.t0,
                   t |-> now]
       /\ req' = [req EXCEPT ![r] = IdleReq]
       /\ last' = NoneServed
       /\ UNCHANGED <<now, envVars, storeVars, breaker, healthCache,
                      histVars, policy, streak, write, sideVars>>

\* a window no EVAL can reach any more
WindowOver(window_start, t) ==
    window_start + SecondsPerMinute + OpDeadlineSeconds <= t

\* the clock moves to t; the store drops what has expired. A call to the
\* store ends, one way or the other, within its socket timeout.
Tick(t) ==
    /\ t > now
    /\ \A r \in Slots : req[r].pc \in {"health_fetch", "rate_eval",
                                        "status_read"}
                           => t - req[r].t0 <= OpDeadlineSeconds
    /\ now' = t
    /\ counters' = [u \in Users |-> [w \in WindowStarts |->
                        Expire(counters[u][w], NoKey, t)]]
    /\ healthKey' = Expire(healthKey, HealthAbsent, t)
    /\ abuse' = [ip \in IPs |-> Expire(abuse[ip], NoKey, t)]
    /\ blocked' = [ip \in IPs |-> Expire(blocked[ip], NoKey, t)]
    /\ grants' = [u \in Users |-> [w \in WindowStarts |->
                        IF WindowOver(w, t) THEN <<>> ELSE grants[u][w]]]
    /\ fbAdmits' = [u \in Users |-> [w \in WindowStarts |->
                        IF WindowOver(w, t) THEN 0 ELSE fbAdmits[u][w]]]
    /\ last' = NoneServed
    /\ UNCHANGED <<envVars, breaker, healthCache, req, policy, streak,
                   sideVars>>
    /\ call' = NoCall
    /\ write' = NoWrite

(***************************************************************************)
(* The limit policy on its own.                                            *)
(***************************************************************************)
NoPolicy ==
    [tier |-> None,
     tier_config |-> FallbackTierConfig,
     system_health |-> None, calls |-> 0, result |-> 0]

\* "partner" is a tier name the policy has no arm for
PolicyTiers == {"free", "pro", "enterprise", "partner"}

\* "MAINTENANCE" is a health value SystemHealth does not have
PolicyHealths == {"NORMAL", "DEGRADED", "MAINTENANCE"}

\* the tier descriptors TierConfig accepts, with limits up to MaxLimit
TierConfigs ==
    {c \in [base_limit : 1..MaxLimit, burst_limit : 1..MaxLimit,
            degraded_limit : 1..MaxLimit, window_minutes : {1}] :
        c.burst_limit >= c.base_limit}

\* _calculate_effective_limit is called on the drawn arguments
CalculateLimit ==
    /\ policy.tier # None
    /\ policy.calls < 2
    /\ policy' = [policy EXCEPT
                    !.calls = @ + 1,
                    !.result = CalculateEffectiveLimit(
                                   policy.tier, policy.tier_config,
                                   policy.system_health)]
    /\ last' = NoneServed
    /\ UNCHANGED <<now, envVars, storeVars, breaker, healthCache, req,
                   histVars, statusVars, sideVars>>

(***************************************************************************)
(* Initial states.                                                         *)
(***************************************************************************)
\* the health the lifespan of main.py wrote at startup, a minute before
StartupHealth ==
    SystemHealthScript(HsetUpdatedBy(HealthAbsent, "system_startup"),
                       "NORMAL", 0, StartTime - SecondsPerMinute)

\* the health after an administrator has declared DEGRADED, one second
\* before the start
DegradedHealth ==
    SystemHealthScript(HsetUpdatedBy(StartupHealth, "admin"),
                       "DEGRADED", 0, StartTime - 1)

\* the health cache of an instance that has served no request yet
ColdCache == [data |-> EmptyHealthData, last_check |-> 0, fetched_at |-> 0]

\* the health cache of an instance that fetched one second before the start
WarmCache ==
    [data |-> GetSystemHealthData("ok", StartupHealth),
     last_check |-> StartTime - 1, fetched_at |-> StartTime - 1]

\* the pipeline at rest: the store up or down, faults calls that may fail,
\* the stored health one of health_keys, every instance's cache as given,
\* and the abuse counter of a source absent or at one of abuse_counts
StartedWith(up, faults, health_keys, cache, abuse_counts) ==
    /\ now = StartTime
    /\ storeUp = up
    /\ faultsLeft = faults
    /\ counters = [u \in Users |-> [w \in WindowStarts |-> NoKey]]
    /\ healthKey \in health_keys
    /\ abuse \in [IPs -> {NoKey} \cup
                    {[exists |-> TRUE, count |-> c,
                      expireAt |-> StartTime + 1] : c \in abuse_counts}]
    /\ blocked = [ip \in IPs |-> NoKey]
    /\ breaker = [i \in Instances |-> NewBreaker]
    /\ healthCache = [i \in Instances |-> cache]
    /\ req = [r \in Slots |-> IdleReq]
    /\ last = NoneServed
    /\ grants = [u \in Users |-> [w \in WindowStarts |-> <<>>]]
    /\ fbAdmits = [u \in Users |-> [w \in WindowStarts |-> 0]]
    /\ call = NoCall
    /\ streak = [i \in Instances |-> 0]
    /\ write = NoWrite
    /\ validated = NoValidation

\* the same with the directory user_tier_manager loaded at import
PipelineInit(up, faults, health_keys, cache, abuse_counts) ==
    /\ StartedWith(up, faults, health_keys, cache, abuse_counts)
    /\ directory = ConfiguredDirectory
    /\ boot = ConfiguredBoot

(***************************************************************************)
(* Spec: the counter pipeline. Two instances, one handler each, serve the  *)
(* requests of one identity across a window boundary while the health is   *)
(* rewritten and single store calls fail.                                  *)
(***************************************************************************)
Init ==
    /\ PipelineInit(TRUE, MaxFaults, {StartupHealth}, WarmCache, {})
    /\ policy = NoPolicy

Keys == {Header(KeyAlice), Header(KeyAlice2)}

Next ==
    \/ \E r \in Slots, ip \in IPs, key \in Keys :
          Arrive(r, r, ip, PathApi, key)
    \/ \E r \in Slots : HealthFetch(r)
    \/ \E r \in Slots : RateEval(r)
    \/ \E status \in {"NORMAL", "DEGRADED"} :
          SetSystemHealth(1, status, 0, "admin")
    \/ \E t \in TimePoints : Tick(t)

Spec == Init /\ [][Next]_vars

(***************************************************************************)
(* SpecDown: the store is unreachable from the start and stays so.         *)
(***************************************************************************)
InitDown ==
    /\ PipelineInit(FALSE, 0, {StartupHealth, DegradedHealth}, ColdCache, {})
    /\ policy = NoPolicy

KeysDown == {Header(KeyAlice), Header(KeyBob)}

NextDown ==
    \/ \E r \in Slots, ip \in IPs, key \in KeysDown :
          Arrive(r, r, ip, PathApi, key)
    \/ \E r \in Slots : HealthFetch(r)
    \/ \E r \in Slots : RateEval(r)
    \/ \E t \in TimePoints : Tick(t)

SpecDown == InitDown /\ [][NextDown]_vars

(***************************************************************************)
(* SpecAbuse: requests without a usable key, and requests on an excluded   *)
(* path, from one source whose abuse counter may already be at the         *)
(* threshold, while single store calls fail.                               *)
(***************************************************************************)
InitAbuse ==
    /\ PipelineInit(TRUE, MaxFaults, {StartupHealth}, WarmCache,
                    {MaxAttempts})
    /\ policy = NoPolicy

KeysAbuse == {NoHeader, Header(KeyUnknown), Header(KeyShort), Header(KeyBlank)}

PathsAbuse == {PathApi, PathHealth}

NextAbuse ==
    \/ \E r \in Slots, ip \in IPs, path \in PathsAbuse, key \in KeysAbuse :
          Arrive(r, r, ip, path, key)
    \/ \E r \in Slots : CheckInvalidKeyAttempts(r)
    \/ \E r \in Slots : BlockIp(r)
    \/ \E t \in TimePoints : Tick(t)

SpecAbuse == InitAbuse /\ [][NextAbuse]_vars

(***************************************************************************)
(* SpecOrder: requests with a known key and without a key, on a path that  *)
(* is rate limited and on an excluded path, from a source one refused      *)
(* request away from its block, while single store calls fail.             *)
(***************************************************************************)
InitOrder ==
    /\ PipelineInit(TRUE, MaxFaults, {StartupHealth}, WarmCache,
                    {MaxAttempts})
    /\ policy = NoPolicy

KeysOrder == {Header(KeyAlice), NoHeader}

NextOrder ==
    \/ \E r \in Slots, ip \in IPs, path \in PathsAbuse, key \in KeysOrder :
          Arrive(r, 1, ip, path, key)
    \/ \E r \in Slots : CheckInvalidKeyAttempts(r)
    \/ \E r \in Slots : BlockIp(r)
    \/ \E r \in Slots : HealthFetch(r)
    \/ \E r \in Slots : RateEval(r)
    \/ \E t \in TimePoints : Tick(t)

SpecOrder == InitOrder /\ [][NextOrder]_vars

(***************************************************************************)
(* SpecBump: within one second, requests from one source with a key that   *)
(* resolves and with keys that fail in each of the four ways, on a path    *)
(* that is rate limited and on an excluded path, while single store calls  *)
(* fail.                                                                   *)
(***************************************************************************)
KeysBump ==
    {Header(KeyAlice), NoHeader, Header(KeyBlank), Header(KeyShort),
     Header(KeyUnknown)}

NextBump ==
    \/ \E r \in Slots, ip \in IPs, path \in PathsAbuse, key \in KeysBump :
          Arrive(r, 1, ip, path, key)
    \/ \E r \in Slots : CheckInvalidKeyAttempts(r)
    \/ \E r \in Slots : BlockIp(r)
    \/ \E r \in Slots : RateEval(r)

SpecBump == InitOrder /\ [][NextBump]_vars

(***************************************************************************)
(* SpecShare: within one second, the client behind instance 1 sends         *)
(* alice's first key, the client behind instance 2 alice's second key or   *)
(* bob's key, and no instance has read the health yet, while single store  *)
(* calls fail.                                                             *)
(***************************************************************************)
InitShare ==
    /\ PipelineInit(TRUE, MaxFaults, {StartupHealth}, ColdCache, {})
    /\ policy = NoPolicy

\* the keys the client behind instance i sends
KeysShare(i) ==
    IF i = 1 THEN {Header(KeyAlice)}
    ELSE {Header(KeyAlice2), Header(KeyBob)}

NextShare ==
    \/ \E r \in Slots, ip \in IPs :
          \E key \in KeysShare(r) : Arrive(r, r, ip, PathApi, key)
    \/ \E r \in Slots : HealthFetch(r)
    \/ \E r \in Slots : RateEval(r)

SpecShare == InitShare /\ [][NextShare]_vars

(***************************************************************************)
(* SpecExclude: requests without a key on paths inside, beside and outside *)
(* the exclusion list, from a source at the abuse threshold, while single  *)
(* store calls fail.                                                       *)
(***************************************************************************)
InitExclude ==
    /\ PipelineInit(TRUE, MaxFaults, {StartupHealth}, WarmCache,
                    {MaxAttempts})
    /\ policy = NoPolicy

PathsExclude ==
    {PathApi, PathHealth, PathHealthz, PathRoot, PathDocs, PathAdmin,
     PathAdminSlash, PathAdminUsers, PathAdministrator, PathAdminStar}

NextExclude ==
    \/ \E r \in Slots, ip \in IPs, path \in PathsExclude :
          Arrive(r, 1, ip, path, NoHeader)
    \/ \E r \in Slots : CheckInvalidKeyAttempts(r)
    \/ \E r \in Slots : BlockIp(r)
    \/ \E t \in TimePoints : Tick(t)

SpecExclude == InitExclude /\ [][NextExclude]_vars

(***************************************************************************)
(* SpecKeys: validate_api_key on drawn header values, against directories  *)
(* that also bind keys of a bad format.                                    *)
(***************************************************************************)
\* n times the character c
Repeat(c, n) == [k \in 1..n |-> c]

KeyNine == <<"v", "a", "l", "i", "d", "_", "k", "e", "y">>
KeySigns ==
    <<"m", "a", "l", "@", "f", "o", "r", "m", "e", "d", "#", "k", "e", "y",
      "!">>
KeyInnerSpace == <<"k", "e", "y", " ", "a", "l", "i", "c", "e", "1">>
KeyPadded == <<" ">> \o KeyAlice \o <<"\t", "\n">>
KeyLongest == Repeat("a", MaxKeyLen)
KeyTooLong == Repeat("a", MaxKeyLen + 1)

\* every str of up to 3 characters over blank, tab and two legal ones
ShortTexts ==
    UNION {[1..n -> {" ", "\t", "a", "-"}] : n \in 0..3}

HeadersProbe ==
    {NoHeader} \cup {Header(v) : v \in ShortTexts \cup
        {KeyBlank, KeyShort, KeyNine, KeySigns, KeyInnerSpace, KeyPadded,
         KeyLongest, KeyTooLong, KeyAlice, KeyAlice2, KeyBob, KeyUnknown}}

\* the configured directory; one that also binds keys of a bad format;
\* one whose key names a user without a tier
DirectoriesProbe ==
    {ConfiguredDirectory,
     [api_key_to_user |->
         ApiKeyToUser @@ (KeyNine :> "alice") @@ (KeySigns :> "bob")
           @@ (KeyTooLong :> "alice") @@ (KeyLongest :> "bob")
           @@ (KeyPadded :> "bob") @@ (<<"a">> :> "alice"),
      user_to_tier |-> UserToTier],
     [api_key_to_user |-> ApiKeyToUser @@ (KeyUnknown :> "carol"),
      user_to_tier |-> UserToTier]}

\* api_key_validator.validate_api_key(header, request_context)
ValidateKey(header) ==
    /\ validated' = [made |-> TRUE, header |-> header,
                     ident |-> ValidateApiKey(header)]
    /\ last' = NoneServed
    /\ UNCHANGED <<now, envVars, storeVars, breaker, healthCache, req,
                   histVars, policy, statusVars, directory, boot>>

InitKeys ==
    /\ StartedWith(TRUE, 0, {StartupHealth}, ColdCache, {})
    /\ directory \in DirectoriesProbe
    /\ boot = ConfiguredBoot
    /\ policy = NoPolicy

NextKeys == \E header \in HeadersProbe : ValidateKey(header)

SpecKeys == InitKeys /\ [][NextKeys]_vars

(***************************************************************************)
(* SpecConfig: the process starts on a drawn configuration file, loads the *)
(* directory from what _load_config left, then validates keys and selects  *)
(* limits while the file is rewritten and reloaded.                        *)
(***************************************************************************)
\* the descriptors a file can hold for a tier, accepted or not
RawTierConfigs ==
    [base_limit : 0..MaxLimit, burst_limit : 0..MaxLimit,
     degraded_limit : 0..MaxLimit, window_minutes : {0, 1}]

\* a second configuration: both maps differ from ConfiguredConfig
SecondConfig ==
    [tiers |-> TierTable,
     users |-> [alice |-> "pro", bob |-> "enterprise"],
     api_keys |-> (KeyAlice :> "bob") @@ (KeyBob :> "alice")]

\* data without the pro tier; with a user of a tier that is not defined;
\* with a key of a user that is not defined
DataWithoutTier ==
    [ConfiguredConfig EXCEPT
        !.tiers = [t \in {"free", "enterprise"} |-> TierTable[t]],
        !.users = [alice |-> "free", bob |-> "free"]]
DataWithStrayUser ==
    [ConfiguredConfig EXCEPT !.users = [alice |-> "free", bob |-> "gold"]]
DataWithStrayKey ==
    [ConfiguredConfig EXCEPT !.api_keys = @ @@ (KeyUnknown :> "carol")]

DocumentsStartup ==
    {AbsentDocument, GarbledDocument}
      \cup {JsonDocument([ConfiguredConfig EXCEPT !.tiers.free = d]) :
              d \in RawTierConfigs}
      \cup {JsonDocument(data) :
              data \in {DataWithoutTier, DataWithStrayUser,
                        DataWithStrayKey}}

DocumentsReload ==
    {AbsentDocument, GarbledDocument, JsonDocument(SecondConfig),
     JsonDocument(DataWithStrayUser)}

HeadersConfig ==
    {NoHeader} \cup {Header(k) : k \in {KeyAlice, KeyBob, KeyUnknown,
                                        KeyDemoFree, KeyDemoPro}}

\* config_manager = ConfigManager(), at the import of core.config
LoadConfig ==
    /\ boot.outcome = "none"
    /\ LET loaded == LoadConfigResult(boot.document)
       IN boot' = [boot EXCEPT !.config = loaded.config,
                               !.outcome = loaded.outcome]
    /\ validated' = NoValidation
    /\ last' = NoneServed
    /\ UNCHANGED <<now, envVars, storeVars, breaker, healthCache, req,
                   histVars, policy, statusVars, directory>>

\* user_tier_manager = UserTierManager(), at the import of the services
LoadUsers ==
    /\ boot.outcome # "none"
    /\ ~boot.users
    /\ directory' = LoadUsersResult(directory, boot.config)
    /\ boot' = [boot EXCEPT !.users = TRUE]
    /\ validated' = NoValidation
    /\ last' = NoneServed
    /\ UNCHANGED <<now, envVars, storeVars, breaker, healthCache, req,
                   histVars, policy, statusVars>>

\* POST /admin/config/reload once the file holds document:
\* config_manager.reload_config(), then user_tier_manager.reload_users(),
\* which reloads the configuration again and calls _load_users. The
\* endpoint awaits nothing, so no other coroutine runs in between.
ReloadConfig(document) ==
    /\ boot.users
    /\ boot.reloads < MaxReloads
    /\ LET loaded == LoadConfigResult(document)
       IN /\ boot' = [boot EXCEPT !.document = document,
                                  !.config = loaded.config,
                                  !.outcome = loaded.outcome,
                                  !.reloads = @ + 1]
          /\ directory' = LoadUsersResult(directory, loaded.config)
    /\ validated' = NoValidation
    /\ last' = NoneServed
    /\ UNCHANGED <<now, envVars, storeVars, breaker, healthCache, req,
                   histVars, policy, statusVars>>

\* check_rate_limit to the point where the effective limit is known
SelectLimit(tier, system_health) ==
    /\ boot.users
    /\ LET tier_config == TierConfigIn(boot.config, tier)
       IN policy' = [tier |-> tier, tier_config |-> tier_config,
                     system_health |-> system_health, calls |-> 1,
                     result |-> CalculateEffectiveLimit(
                                    tier, tier_config, system_health)]
    /\ validated' = NoValidation
    /\ last' = NoneServed
    /\ UNCHANGED <<now, envVars, storeVars, breaker, healthCache, req,
                   histVars, statusVars, directory, boot>>

InitConfig ==
    /\ StartedWith(TRUE, 0, {StartupHealth}, ColdCache, {})
    /\ directory = NoDirectory
    /\ boot \in {Unstarted(document) : document \in DocumentsStartup}
    /\ policy = NoPolicy

NextConfig ==
    \/ LoadConfig
    \/ LoadUsers
    \/ \E document \in DocumentsReload : ReloadConfig(document)
    \/ \E header \in HeadersConfig : boot.users /\ ValidateKey(header)
    \/ \E tier \in PolicyTiers, system_health \in {"NORMAL", "DEGRADED"} :
          SelectLimit(tier, system_health)

SpecConfig == InitConfig /\ [][NextConfig]_vars

(***************************************************************************)
(* SpecBreaker: the circuit breaker of one instance under status reads,    *)
(* two of which may be in flight together, while the store goes down and   *)
(* comes back and the clock passes the reset timeout.                      *)
(***************************************************************************)
InitBreaker ==
    /\ PipelineInit(TRUE, 0, {StartupHealth}, WarmCache, {})
    /\ policy = NoPolicy

\* the instants around the reset timeout
BreakerTimePoints ==
    {StartTime + d : d \in {0, 1, ResetTimeout - 1, ResetTimeout,
                            ResetTimeout + 1, ResetTimeout + 2}}

NextBreaker ==
    \/ \E r \in Slots : GetUserRateLimitStatus(r, 1)
    \/ \E r \in Slots : GetUserRateLimitStatusEnds(r)
    \/ StoreFails
    \/ StoreRecovers
    \/ \E t \in BreakerTimePoints : Tick(t)

SpecBreaker == InitBreaker /\ [][NextBreaker]_vars

(***************************************************************************)
(* SpecRecover: the status reads of SpecBreaker with callers that keep     *)
(* calling, calls that end and a clock that goes on. The store may be down *)
(* during the first two seconds only, so that the reset timeout can pass   *)
(* after the last failure within the instants the clock visits.            *)
(***************************************************************************)
\* the last instant at which the store may be down
OutageEnd == StartTime + 1

StoreFailsEarly ==
    /\ now <= OutageEnd
    /\ StoreFails

\* the clock does not leave the outage's seconds while the store is down
TickRecover(t) ==
    /\ (t > OutageEnd => storeUp)
    /\ Tick(t)

NextRecover ==
    \/ \E r \in Slots : GetUserRateLimitStatus(r, 1)
    \/ \E r \in Slots : GetUserRateLimitStatusEnds(r)
    \/ StoreFailsEarly
    \/ StoreRecovers
    \/ \E t \in BreakerTimePoints : TickRecover(t)

\* callers keep calling, every call let through ends, and time passes
FairRecover ==
    /\ \A r \in Slots : WF_vars(GetUserRateLimitStatus(r, 1))
    /\ \A r \in Slots : WF_vars(GetUserRateLimitStatusEnds(r))
    /\ \A t \in BreakerTimePoints : SF_vars(TickRecover(t))

SpecRecover == InitBreaker /\ [][NextRecover]_vars /\ FairRecover

(***************************************************************************)
(* SpecCancel: the status reads of SpecBreaker, any of which may also be   *)
(* abandoned by the cancellation of the task that awaits it.               *)
(***************************************************************************)
NextCancel ==
    \/ NextBreaker
    \/ \E r \in Slots : GetUserRateLimitStatusCancelled(r)

SpecCancel == InitBreaker /\ [][NextCancel]_vars

(***************************************************************************)
(* SpecHealth: two handlers of one instance serve the requests of one      *)
(* identity, the instance's cache holding the NORMAL it read just before   *)
(* DEGRADED was declared, while the health is rewritten, with and without  *)
(* a ttl, through another instance, the cache's ttl passes and single      *)
(* store calls fail.                                                       *)
(***************************************************************************)
InitHealth ==
    /\ PipelineInit(TRUE, MaxFaults, {DegradedHealth}, WarmCache, {})
    /\ policy = NoPolicy

NextHealth ==
    \/ \E r \in Slots, ip \in IPs :
          Arrive(r, 1, ip, PathApi, Header(KeyAlice))
    \/ \E r \in Slots : HealthFetch(r)
    \/ \E r \in Slots : RateEval(r)
    \/ \E status \in {"NORMAL", "DEGRADED"}, ttl_seconds \in 0..MaxTtl :
          SetSystemHealth(2, status, ttl_seconds, "admin")
    \/ \E t \in TimePoints : Tick(t)

SpecHealth == InitHealth /\ [][NextHealth]_vars

(***************************************************************************)
(* SpecPolicy: the limit policy applied to drawn arguments.                *)
(***************************************************************************)
InitPolicy ==
    /\ PipelineInit(TRUE, 0, {StartupHealth}, ColdCache, {})
    /\ policy \in [tier : PolicyTiers, tier_config : TierConfigs,
                   system_health : PolicyHealths, calls : {0}, result : {0}]

NextPolicy == CalculateLimit

SpecPolicy == InitPolicy /\ [][NextPolicy]_vars

(***************************************************************************)
(* Properties.                                                             *)
(***************************************************************************)
\* every limit the policy can select from the tier table
LimitValues ==
    {CalculateEffectiveLimit(tier, TierTable[tier], h) :
        tier \in DOMAIN TierTable, h \in PolicyHealths}

\* the admissions of a window key that the store's answer granted
Granted(u, w) ==
    {k \in DOMAIN grants[u][w] : grants[u][w][k].delivered}

\* C1 (as amended): for every identity, window and limit value L, the
\* requests admitted by an answer of the store's counter check under a limit
\* of at most L number at most L, all instances together. Admissions by the
\* fallback decision are not counted by the store and are not capped.
C1_StoreAdmissionsCapped ==
    \A u \in Users, w \in WindowStarts, L \in LimitValues :
        Cardinality({k \in Granted(u, w) : grants[u][w][k].limit <= L}) <= L

\* C1, its case: one window key has admitted up to the larger limit, through
\* answers taken under different limits
C1_Witness ==
    \E u \in Users, w \in WindowStarts :
        /\ Cardinality(Granted(u, w)) = 2
        /\ \E j, k \in Granted(u, w) :
              grants[u][w][j].limit < grants[u][w][k].limit

\* C1 as stated: while the stored health is the NORMAL written at startup,
\* the requests of an identity forwarded in a window, by the store's answer
\* or by the fallback, number at most its effective limit under NORMAL
C1_AdmissionsCappedByLimit ==
    healthKey = StartupHealth =>
        \A u \in Users, w \in WindowStarts :
            Cardinality(Granted(u, w)) + fbAdmits[u][w]
                <= CalculateEffectiveLimit(UserToTier[u],
                                           TierConfigOf(UserToTier[u]),
                                           StoredHealth(healthKey))

\* the request answered in this step got the store's answer
StoreAnswered(rec) == rec.served /\ rec.dec.made /\ ~rec.dec.fallback

\* C2: the script runs that admit on one window key, whatever instances
\* call and however the calls overlap, receive the counts 1, 2, ..., k in
\* the order the store runs them, each count at most the limit of its call
C2_CountsLinearised ==
    \A u \in Users, w \in WindowStarts :
        \A k \in DOMAIN grants[u][w] :
            /\ grants[u][w][k].count = k
            /\ k <= grants[u][w][k].limit

\* C2, its case: of two calls of different instances in flight together on
\* one window key with one limit, one has been admitted and the other waits
C2_Witness ==
    \E r \in Slots :
        /\ req[r].pc = "rate_eval"
        /\ StoreAnswered(last) /\ last.dec.allowed
        /\ last.inst # req[r].inst
        /\ last.ident.user_id = req[r].ident.user_id
        /\ last.dec.window_start
              = WindowStartOf(req[r].t0, WindowSecondsOf(req[r].ident.tier))
        /\ last.dec.limit = req[r].limit
        /\ req[r].t0 <= last.t0

\* C3: while a window lasts, and through the second after it in which a
\* call begun in it may still run, the stored counter of its key is never
\* decremented and never removed, and every count the script returns for
\* the key is the stored counter after the call, hence at least every count
\* returned before
C3_CounterMonotonic ==
    [][\A u \in Users, w \in WindowStarts :
          now' <= w + SecondsPerMinute =>
              /\ counters'[u][w].count >= counters[u][w].count
              /\ counters[u][w].exists => counters'[u][w].exists
              /\ (/\ StoreAnswered(last')
                  /\ last'.ident.user_id = u
                  /\ last'.dec.window_start = w)
                 => /\ last'.dec.count = counters'[u][w].count
                    /\ last'.dec.count >= counters[u][w].count]_vars

\* C3, its case: a call under a smaller limit is rejected with the count
\* two admitted calls under a larger limit have left
C3_Witness ==
    /\ StoreAnswered(last) /\ ~last.dec.allowed
    /\ last.dec.count = 2
    /\ last.dec.limit = 1
    /\ Len(grants[last.ident.user_id][last.dec.window_start]) = 2

\* the window a decision of the store belongs to, from the time its call read
WindowOfCall(rec) ==
    WindowStartOf(rec.t0, WindowSecondsOf(rec.ident.tier))

\* C4 (as amended): for every request admitted by an answer of the store's
\* counter check, remaining plus the stored counter after the request's
\* increment is the limit, reset_time is the start of the window of the
\* time the call read plus the window, and the headers carry these values.
\* A request admitted by the fallback decision is outside this statement.
C4_StoreAdmissionHeaders ==
    (StoreAnswered(last) /\ last.dec.allowed) =>
        /\ last.dec.remaining
              + counters[last.ident.user_id][WindowOfCall(last)].count
              = last.dec.limit
        /\ last.dec.reset_time
              = WindowOfCall(last) + WindowSecondsOf(last.ident.tier)
        /\ last.resp.forwarded
        /\ last.resp.limit_hdr = last.dec.limit
        /\ last.resp.remaining_hdr = last.dec.remaining
        /\ last.resp.reset_hdr = last.dec.reset_time

\* C4, its case: the second admission of a window, answered in the second
\* after the one its call read, across the window boundary
C4_Witness ==
    /\ StoreAnswered(last) /\ last.dec.allowed
    /\ last.dec.count = 2
    /\ last.t0 < last.t
    /\ WindowOfCall(last) + WindowSecondsOf(last.ident.tier) = last.t

\* C4 as stated: every admitted request, by the store's answer or by the
\* fallback, has remaining + count_after = limit and
\* reset_time = window_start + window
C4_AdmittedHeaders ==
    (last.served /\ last.dec.made /\ last.dec.allowed) =>
        /\ last.dec.remaining
              + counters[last.ident.user_id][WindowOfCall(last)].count
              = last.dec.limit
        /\ last.dec.reset_time
              = WindowOfCall(last) + WindowSecondsOf(last.ident.tier)

\* C5: a request the counter check rejects is answered 429 with error code
\* RATE_LIMIT_EXCEEDED and is not forwarded; its decision has remaining 0,
\* its X-RateLimit-Limit is the limit the check used, which the stored
\* counter has reached, and its Retry-After is reset_time - now when that
\* is at least 1 and 1 otherwise
C5_RejectedResponse ==
    (last.served /\ last.dec.made /\ ~last.dec.allowed) =>
        /\ last.resp.status = 429
        /\ last.resp.error_code = "RATE_LIMIT_EXCEEDED"
        /\ ~last.resp.forwarded
        /\ last.dec.remaining = 0
        /\ last.resp.remaining_hdr = 0
        /\ last.resp.limit_hdr = last.dec.limit
        /\ counters[last.ident.user_id][WindowOfCall(last)].count
              >= last.resp.limit_hdr
        /\ last.resp.reset_hdr = last.dec.reset_time
        /\ last.resp.retry_after
              = (IF last.dec.reset_time - last.t >= 1
                 THEN last.dec.reset_time - last.t ELSE 1)
        /\ last.resp.retry_after >= 1

\* C5, its case: the rejection is answered when its reset time has come
C5_Witness ==
    /\ last.served /\ last.dec.made /\ ~last.dec.allowed
    /\ last.dec.reset_time - last.t <= 0

\* C6 as stated: the limit _calculate_effective_limit returns is the entry
\* of the policy table: under NORMAL burst for free, pro and enterprise and
\* base for any other tier name; under DEGRADED degraded for free and base
\* for every other tier name; under any other health value base
C6_PolicyTable ==
    policy.calls > 0 =>
        policy.result =
            (IF policy.system_health = "NORMAL"
             THEN IF policy.tier \in {"free", "pro", "enterprise"}
                  THEN policy.tier_config.burst_limit
                  ELSE policy.tier_config.base_limit
             ELSE IF policy.system_health = "DEGRADED"
             THEN IF policy.tier = "free"
                  THEN policy.tier_config.degraded_limit
                  ELSE policy.tier_config.base_limit
             ELSE policy.tier_config.base_limit)

\* C7: while every call to the store raises, by a store error or by the
\* open circuit, every request with a valid key is forwarded with the
\* fallback decision: admitted, remaining 1, reset_time the time of the
\* answer plus the window, and as limit the effective limit under NORMAL,
\* whatever health the store holds
C7_FailOpen ==
    (last.served /\ last.ident.ok) =>
        /\ last.dec.made /\ last.dec.fallback /\ last.dec.allowed
        /\ last.dec.remaining = 1
        /\ last.dec.reset_time = last.t + WindowSecondsOf(last.ident.tier)
        /\ last.dec.limit
              = CalculateEffectiveLimit(last.ident.tier,
                                        TierConfigOf(last.ident.tier),
                                        "NORMAL")
        /\ last.resp.forwarded
        /\ last.resp.status = 200
        /\ last.resp.limit_hdr = last.dec.limit
        /\ last.resp.remaining_hdr = 1
        /\ last.resp.reset_hdr = last.dec.reset_time

\* C7, its case: a free-tier request is answered through the open circuit
\* while the store holds DEGRADED, under which its limit would be smaller
C7_Witness ==
    /\ last.served /\ last.ident.ok
    /\ last.ident.tier = "free"
    /\ healthKey = DegradedHealth
    /\ breaker[last.inst].state = "open"
    /\ last.dec.limit > TierConfigOf("free").degraded_limit

\* C8 as stated: a request whose key validate_api_key refuses is never
\* forwarded, and its response is the 429 IP_BLOCKED or the APIKeyError's
\* own response with status 401 or 400
C8_InvalidKeyRefused ==
    (last.served /\ ~last.excluded /\ last.ident.error_code # None) =>
        /\ ~last.resp.forwarded
        /\ \/ last.resp = BlockedIpResponse
           \/ /\ last.resp = ApiKeyErrorResponse(last.ident)
              /\ last.resp.status \in {400, 401}

\* C9 as stated: when increment_security_counter raises,
\* check_invalid_key_attempts returns False and the request is answered as
\* one of a blocked source
C9_BumpFailureBlocks ==
    (last.served /\ last.bump = "raised") =>
        /\ ~last.within
        /\ last.resp = BlockedIpResponse

\* C10 as stated: whatever store calls fail, a request on a path that is
\* not excluded is answered with the upstream's response, 400, 401 or 429
C10_NoServerError ==
    (last.served /\ ~last.excluded) =>
        last.resp.status \in {200, 400, 401, 429}

\* a call that reached the store has ended in this step
CallEnded == call.made /\ call.outcome # "circuit_open"

\* C11: a closed breaker is open after a call exactly when that call failed
\* and was the failure_threshold-th failure in a row, counting the calls as
\* they end; after fewer failures in a row it is still closed, and after a
\* success the count of failures is 0
C11_OpensAtThreshold ==
    (CallEnded /\ call.before.state = "closed") =>
        LET cb == breaker[call.inst]
            failures == streak[call.inst]
        IN /\ cb.state = "open"
                <=> (call.outcome = "fail" /\ failures = FailureThreshold)
           /\ failures < FailureThreshold => cb.state = "closed"
           /\ failures <= FailureThreshold
           /\ call.outcome = "ok" => failures = 0 /\ cb.failure_count = 0

\* C11, its case: the fifth failure in a row has opened the closed breaker
C11_Witness ==
    /\ CallEnded /\ call.before.state = "closed"
    /\ call.outcome = "fail"
    /\ streak[call.inst] = FailureThreshold
    /\ breaker[call.inst].state = "open"

\* C12: while a breaker is open and no more than reset_timeout seconds
\* have passed since its last failure, no call of its instance is sent to
\* the store, and a call refused leaves state, failure count and
\* last-failure time as they were
C12_OpenRefuses ==
    [][\A i \in Instances :
          (/\ breaker[i].state = "open"
           /\ now - breaker[i].last_failure_time <= ResetTimeout) =>
              /\ \A r \in Slots :
                    (req[r].pc = "idle" /\ req'[r].pc # "idle")
                        => req'[r].inst # i
              /\ (/\ call'.made /\ call'.inst = i
                  /\ call'.outcome = "circuit_open")
                 => breaker'[i] = breaker[i]]_vars

\* C12, its case: a call is refused in the last second of the timeout
C12_Witness ==
    /\ call.made /\ call.outcome = "circuit_open"
    /\ call.before.state = "open"
    /\ call.t - call.before.last_failure_time = ResetTimeout
    /\ breaker[call.inst] = call.before

\* C13 as stated: an open breaker leaves open only for half-open, in a step
\* that lets a call through more than reset_timeout seconds after the
\* failure that opened it
C13_LeavesOpenByTimeoutOnly ==
    [][\A i \in Instances :
          (breaker[i].state = "open" /\ breaker'[i].state # "open") =>
              /\ breaker'[i].state = "half-open"
              /\ now - breaker[i].last_failure_time > ResetTimeout
              /\ \E r \in Slots : /\ req[r].pc = "idle"
                                   /\ req'[r].pc # "idle"
                                   /\ req'[r].inst = i]_vars

\* C14: a call that ends while the breaker is half-open leaves it closed,
\* with no failure counted, when it succeeded and open, with that failure
\* as the last, when it failed
C14_HalfOpenResolves ==
    (CallEnded /\ call.before.state = "half-open") =>
        LET cb == breaker[call.inst]
        IN /\ call.outcome = "ok"
                => cb.state = "closed" /\ cb.failure_count = 0
           /\ call.outcome = "fail"
                => cb.state = "open" /\ cb.last_failure_time = call.t

\* C14, its case: the call let through after the timeout has succeeded
C14_Witness ==
    /\ CallEnded /\ call.before.state = "half-open"
    /\ call.outcome = "ok"
    /\ breaker[call.inst].state = "closed"
    /\ call.started - call.before.last_failure_time > ResetTimeout

\* the health reads that decide or have just decided an admission: the one
\* of each request about to run the window script, and the one of the
\* request answered in this step
HealthUses ==
    {req[r].health : r \in {q \in Slots : req[q].pc = "rate_eval"}}
      \cup {last.health : x \in {y \in {1} : last.served
                                     /\ last.health.status # None}}

\* the step in which the health read of request r returns after a miss
FetchReturns(r) ==
    /\ req[r].pc = "health_fetch"
    /\ req'[r].pc # "health_fetch"

\* the health read that returned to r in this step
ReturnedHealth(r) ==
    IF req'[r].pc = "rate_eval" THEN req'[r].health ELSE last'.health

\* C15: a health read used for an admission decision returns the cached
\* value only when that value was obtained less than HealthCacheTtl
\* seconds before the read began; every other read waits for a store read
\* made after it began, and decides with what that read gave (the stored
\* status, or NORMAL when the read found no value or failed) and never
\* with the value the cache held.
C15_CacheNeverStale ==
    /\ [](\A h \in HealthUses :
            /\ h.hit => /\ h.fetched_at <= h.read_at
                        /\ h.read_at - h.fetched_at < HealthCacheTtl
            /\ ~h.hit => h.fetched_at >= h.read_at)
    /\ [][\A r \in Slots : FetchReturns(r) =>
            LET h == ReturnedHealth(r)
            IN /\ ~h.hit
               /\ h.fetched_at = now
               /\ \/ h.updated_by = "fallback" /\ h.status = "NORMAL"
                  \/ h.updated_by # "fallback"
                       /\ h.status = StoredHealth(healthKey)]_vars

\* a request whose read found a cached value of age HealthCacheTtl - 1 and
\* used it, beside a request that found the cache too old, fetched
\* and decided with DEGRADED although the cache had held NORMAL
C15_Witness ==
    /\ \E h \in HealthUses :
         h.hit /\ h.read_at - h.fetched_at = HealthCacheTtl - 1
    /\ \E h \in HealthUses :
         ~h.hit /\ h.status = "DEGRADED" /\ h.updated_by = "admin"
            /\ h.read_at = StartTime - 1 + HealthCacheTtl

\* the time the stored health was last committed, and whether a health
\* read that began at read_at began HealthCacheTtl or more after it
CommittedBy(read_at) ==
    /\ healthKey.exists
    /\ healthKey.status # None
    /\ read_at - healthKey.timestamp >= HealthCacheTtl

\* C16: once a health write has committed and none follows, every health
\* read of every instance that begins HealthCacheTtl seconds or more after
\* the commit returns the written status. Stated here for the reads that
\* decide an admission, and leaving aside the reads whose own store read
\* failed or was refused: the others are answered from the cache or from
\* a store read that succeeded.
C16_ConvergesWithinTtl ==
    \A h \in HealthUses :
        (CommittedBy(h.read_at) /\ (h.hit \/ h.updated_by # "fallback"))
            => h.status = StoredHealth(healthKey)

\* C17: a health write with ttl_seconds = T > 0 leaves the written status
\* in the store with its expiry T seconds after the write; a stored health
\* is never met at or after its expiry and never disappears before it; and
\* a store read that finds no value returns NORMAL with actor "system".
C17_HealthAutoReset ==
    /\ []((write.made /\ write.outcome = "ok" /\ write.ttl_seconds > 0)
            => /\ healthKey.exists
               /\ healthKey.status = write.status
               /\ healthKey.expireAt = write.t + write.ttl_seconds)
    /\ []((healthKey.exists /\ healthKey.expireAt # NoExpiry)
            => now < healthKey.expireAt)
    /\ [][(healthKey.exists /\ ~healthKey'.exists)
            => (healthKey.expireAt # NoExpiry
                  /\ healthKey.expireAt <= now')]_vars
    /\ [][\A r \in Slots :
            (FetchReturns(r) /\ ~healthKey.exists /\ storeUp
                /\ faultsLeft' = faultsLeft)
              => (ReturnedHealth(r).status = "NORMAL"
                    /\ ReturnedHealth(r).updated_by = "system")]_vars

\* DEGRADED written with a ttl of MaxTtl has expired MaxTtl seconds later,
\* and a request whose health read began then has fetched and been given
\* NORMAL by "system"
C17_Witness ==
    /\ ~healthKey.exists
    /\ \E h \in HealthUses :
         /\ ~h.hit
         /\ h.status = "NORMAL"
         /\ h.updated_by = "system"
         /\ h.read_at = StartTime + MaxTtl

\* the step in which check_invalid_key_attempts of request r returns after
\* an increment_security_counter that the store answered in full
BumpAnswered(r) ==
    /\ req[r].pc = "abuse_check"
    /\ req'[r].pc # "abuse_check"
    /\ abuse'[req[r].ip].exists
    /\ abuse'[req[r].ip].count = (IF abuse[req[r].ip].exists
                                  THEN abuse[req[r].ip].count ELSE 0) + 1
    /\ abuse'[req[r].ip].expireAt # NoExpiry
    /\ faultsLeft' = faultsLeft

\* C18: with the store answering, the n-th request of a source within the
\* abuse counter's ttl whose key is refused is answered with its identity
\* error when n <= MaxAttempts, and otherwise goes on to block_ip; when
\* block_ip has succeeded the source is blocked for BlockDurationMinutes
\* from then and the answer is the 429 IP_BLOCKED with Retry-After 900.
C18_BlocksAfterMaxAttempts ==
    /\ [][\A r \in Slots : BumpAnswered(r) =>
            LET n == abuse'[req[r].ip].count
            IN IF n <= MaxAttempts
               THEN /\ req'[r].pc = "idle"
                    /\ last'.served
                    /\ last'.resp = ApiKeyErrorResponse(req[r].ident)
                    /\ last'.resp.status \in {400, 401}
                    /\ blocked' = blocked
               ELSE /\ req'[r].pc = "block_ip"
                    /\ ~last'.served]_vars
    /\ []((last.served /\ last.block = "ok") =>
            /\ last.resp = BlockedIpResponse
            /\ last.resp.status = 429
            /\ last.resp.retry_after
                  = BlockDurationMinutes * SecondsPerMinute
            /\ blocked[last.ip].exists
            /\ blocked[last.ip].expireAt
                  = last.t + BlockDurationMinutes * SecondsPerMinute)

\* the eleventh refused request of a source has been answered 429
\* IP_BLOCKED and has left the source blocked
C18_Witness ==
    /\ last.served
    /\ last.block = "ok"
    /\ last.resp = BlockedIpResponse
    /\ abuse[last.ip].count = MaxAttempts + 1
    /\ blocked[last.ip].exists

\* C19 as stated: a request on a path that is not excluded, from a source
\* whose block is in the store when dispatch takes the request up, gets no
\* further than the block check: it starts no identity resolution, abuse
\* check or health read, and a request answered at once is answered with
\* the 429 IP_BLOCKED, the counters untouched.
C19_BlockedSourceRefused ==
    [][/\ \A r \in Slots :
            (req[r].pc = "idle" /\ req'[r].pc # "idle")
                => ~blocked[req'[r].ip].exists
       /\ (req' = req /\ last'.served /\ ~last'.excluded
              /\ blocked[last'.ip].exists)
            => (last'.resp = BlockedIpResponse
                  /\ abuse' = abuse /\ counters' = counters)]_vars

\* how far the steps of dispatch have taken a request, from where it waits
PassedIdentity(rq) == rq.ident.ok /\ rq.ident.user_id # None

PassedHealth(rq) == PassedIdentity(rq) /\ rq.health.status # None

PassedPolicy(rq) ==
    /\ PassedHealth(rq)
    /\ rq.limit = CalculateEffectiveLimit(rq.ident.tier,
                                          TierConfigOf(rq.ident.tier),
                                          rq.health.status)

\* the block check of the request taken up in this step was answered by
\* the store
BlockCheckAnswered ==
    /\ faultsLeft' = faultsLeft
    /\ storeUp
    /\ \A i \in Instances : breaker[i].state = "closed"

\* C20: the steps of dispatch run in the order exclusion, source block,
\* identity, health, limit, window counter, each only when the ones before
\* it ran and let the request pass. A request on an excluded path is
\* forwarded with nothing read or written; a request of a source the
\* block check finds blocked is answered 429 and goes no further; a
\* request whose key is refused goes to the abuse check only; a request
\* waits for the health only with an identity, and for the window script
\* only with an identity, a health status and the limit chosen from them;
\* and a window counter changes, the clock apart, only by the script of
\* such a request and only for its identity.
C20_PipelineOrder ==
    /\ [](\A r \in Slots :
            /\ req[r].pc \in {"abuse_check", "block_ip"}
                 => (~req[r].ident.ok /\ req[r].health = NoHealthRead)
            /\ req[r].pc = "health_fetch"
                 => (PassedIdentity(req[r]) /\ req[r].health = NoHealthRead)
            /\ req[r].pc = "rate_eval" => PassedPolicy(req[r]))
    /\ []((last.served /\ last.dec.made)
            => (~last.excluded /\ PassedHealth(last)))
    /\ []((last.served /\ last.excluded)
            => (last.resp = UpstreamResponse /\ last.ident = NoIdent
                  /\ last.health = NoHealthRead /\ ~last.dec.made))
    /\ [][(last'.served /\ last'.excluded)
            => UNCHANGED <<storeVars, breaker, healthCache, req,
                           faultsLeft>>]_vars
    /\ [][BlockCheckAnswered =>
            /\ \A r \in Slots :
                 (req[r].pc = "idle" /\ req'[r].pc # "idle")
                    => ~blocked[req'[r].ip].exists
            /\ (req' = req /\ last'.served /\ ~last'.excluded
                   /\ blocked[last'.ip].exists)
                 => (last'.resp = BlockedIpResponse
                       /\ last'.ident = NoIdent
                       /\ UNCHANGED <<storeVars, healthCache>>)]_vars
    /\ [][(counters' # counters /\ now' = now) =>
            \E r \in Slots :
              /\ req[r].pc = "rate_eval"
              /\ PassedPolicy(req[r])
              /\ req'[r].pc = "idle"
              /\ \A u \in Users \ {req[r].ident.user_id} :
                    counters'[u] = counters[u]]_vars

\* a request has passed every step, its health read a fetch from the
\* store, and has been counted and admitted by the window script
C20_Witness ==
    /\ last.served
    /\ ~last.excluded
    /\ last.dec.made
    /\ ~last.dec.fallback
    /\ last.dec.allowed
    /\ PassedHealth(last)
    /\ ~last.health.hit
    /\ last.health.updated_by = "system_startup"

\* a path matches an entry of the exclusion list: equal to it once the
\* trailing slashes of both are trimmed, or, for an entry ending in /*,
\* equal to or under the entry's prefix
MatchesEntry(path, entry) ==
    LET trimmed == RStrip(path, {"/"})
        prefix == RStrip(SubSeq(entry, 1, Len(entry) - 2), {"/"})
    IN \/ trimmed = RStrip(entry, {"/"})
       \/ /\ EndsWith(entry, <<"/", "*">>)
          /\ \/ trimmed = prefix
             \/ StartsWith(path, prefix \o <<"/">>)

MatchesExclusionList(path) ==
    \E i \in 1..Len(ExcludePaths) : MatchesEntry(path, ExcludePaths[i])

\* C21: a request whose path matches the exclusion list is handed to the
\* upstream at once: no call reaches the store (no counter, abuse counter,
\* block, cache or breaker changes and no failure of the store is met), no
\* request of that path ever waits for the store, and the response is the
\* upstream's own, without rate-limit, Retry-After or request-id header.
C21_ExcludedUntouched ==
    /\ [](\A r \in Slots :
            req[r].pc # "idle" => ~MatchesExclusionList(req[r].path))
    /\ []((last.served /\ MatchesExclusionList(last.path)) =>
            /\ last.excluded
            /\ last.resp = UpstreamResponse
            /\ last.resp.forwarded
            /\ last.resp.limit_hdr = -1
            /\ last.resp.remaining_hdr = -1
            /\ last.resp.reset_hdr = -1
            /\ last.resp.retry_after = -1
            /\ ~last.resp.request_id_hdr)
    /\ [][(last'.served /\ MatchesExclusionList(last'.path)) =>
            UNCHANGED <<storeVars, envVars, breaker, healthCache, req,
                        histVars>>]_vars

\* a request for /health/, excluded by the entry /health, has been
\* forwarded while its source was blocked
C21_Witness ==
    /\ last.served
    /\ last.excluded
    /\ last.path = PathHealth
    /\ blocked[last.ip].exists

\* C22 as stated: validate_api_key raises MISSING_API_KEY (401) exactly
\* when no key is supplied, and EMPTY_API_KEY (401) for every supplied key
\* that is empty once its whitespace is trimmed, the empty str included
C22_MissingVersusEmpty ==
    validated.made =>
        LET header == validated.header
            ident == validated.ident
        IN /\ (~ident.ok /\ ident.error_code = "MISSING_API_KEY")
                <=> ~header.present
           /\ ~header.present => ident.status_code = 401
           /\ (header.present /\ Strip(header.value) = <<>>)
                => /\ ~ident.ok
                   /\ ident.error_code = "EMPTY_API_KEY"
                   /\ ident.status_code = 401

\* the key of the call once its whitespace is trimmed
TrimmedKey == Strip(validated.header.value)

\* the key is of length MinKeyLen..MaxKeyLen, in the legal characters
WellFormed(key) ==
    /\ Len(key) >= MinKeyLen
    /\ Len(key) <= MaxKeyLen
    /\ {key[i] : i \in 1..Len(key)} \subseteq AllowedChars

\* the directory has a user for the key and a tier for that user
Resolves(key) ==
    /\ key \in DOMAIN directory.api_key_to_user
    /\ directory.api_key_to_user[key] \in DOMAIN directory.user_to_tier

ReturnsPairOf(key) ==
    /\ validated.ident.ok
    /\ validated.ident.error_code = None
    /\ validated.ident.user_id = directory.api_key_to_user[key]
    /\ validated.ident.tier
          = directory.user_to_tier[directory.api_key_to_user[key]]

PreviousWindow(window_start) == window_start - SecondsPerMinute

\* the minute of the clock that holds time t
ClockWindow(t) == t - (t % SecondsPerMinute)

\* the counter the store holds for user u and the window that starts at w
CounterAt(u, w) ==
    IF w \in DOMAIN counters[u] THEN counters[u][w] ELSE NoKey

\* the store answers, in this step, the window script of request r, and
\* the identity of r has no counter yet for the minute in which r read
\* the time
FirstOfWindowAnswered(r) ==
    /\ req[r].pc = "rate_eval"
    /\ req'[r].pc = "idle"
    /\ StoreAnswered(last')
    /\ ~CounterAt(req[r].ident.user_id, ClockWindow(req[r].t0)).exists

\* C25: the first request of an identity that the store counts in a
\* window is admitted with count 1 and remaining = L - 1, L its effective
\* limit, whatever the counter of the window before holds, the limit
\* reached included; the new window's counter starts at 1 with its own
\* expiry and the old window's counter is left as it was.
C25_WindowRollover ==
    [][\A r \in Slots : FirstOfWindowAnswered(r) =>
          LET u == req[r].ident.user_id
              w == ClockWindow(req[r].t0)
          IN /\ last'.dec.allowed
             /\ last'.dec.count = 1
             /\ last'.dec.limit = req[r].limit
             /\ last'.dec.remaining = req[r].limit - 1
             /\ last'.dec.window_start = w
             /\ last'.dec.reset_time = w + SecondsPerMinute
             /\ last'.resp.forwarded
             /\ last'.resp.remaining_hdr = req[r].limit - 1
             /\ counters'[u][w].exists
             /\ counters'[u][w].count = 1
             /\ \A v \in WindowStarts \ {w} :
                   counters'[u][v] = counters[u][v]]_vars

\* an identity that used up its limit in the window that ends at
\* StartTime has had its first request of the next window admitted with
\* count 1, under the same limit
C25_Witness ==
    /\ StoreAnswered(last)
    /\ last.dec.allowed
    /\ last.dec.count = 1
    /\ last.dec.window_start = StartTime + 1
    /\ LET old == counters[last.ident.user_id]
                           [PreviousWindow(last.dec.window_start)]
       IN /\ old.exists
          /\ old.count = last.dec.limit
    /\ Len(grants[last.ident.user_id]
                  [PreviousWindow(last.dec.window_start)])
          = last.dec.limit

\* the file is not JSON, or holds data RateLimitConfig does not accept
InvalidDocument(document) ==
    \/ document.kind = "garbled"
    \/ document.kind = "json" /\ ~RateLimitConfigAccepts(document.data)

\* C26: a process started on an invalid configuration file (a file that
\* is not JSON, or data that fails validation) aborts its initialisation:
\* it holds no configuration, loads no directory, least of all the
\* built-in default one, validates no key and selects no limit.
C26_InvalidConfigFatal ==
    (boot.reloads = 0 /\ InvalidDocument(boot.document)) =>
        /\ boot.outcome = "none"
        /\ ~boot.users
        /\ directory = NoDirectory
        /\ ~validated.made
        /\ policy.calls = 0

\* base >= 1, burst >= base, degraded >= 1 and window >= 1
DescriptorSound(d) ==
    /\ d.base_limit >= 1
    /\ d.burst_limit >= d.base_limit
    /\ d.degraded_limit >= 1
    /\ d.window_minutes >= 1

\* C27: every tier descriptor of the configuration the process holds has
\* base >= 1, burst >= base, degraded >= 1 and window >= 1; a file with a
\* descriptor that breaks one of these is rejected when the configuration
\* is constructed; and every effective limit selected, from a descriptor
\* of the configuration or from the fallback descriptor, is at least 1.
C27_TierInvariants ==
    /\ boot.outcome # "none" =>
          \A t \in DOMAIN boot.config.tiers :
             DescriptorSound(boot.config.tiers[t])
    /\ (/\ boot.outcome # "none"
        /\ boot.document.kind = "json"
        /\ \E t \in DOMAIN boot.document.data.tiers :
              ~DescriptorSound(boot.document.data.tiers[t]))
          => boot.outcome = "load_error"
    /\ policy.calls > 0 =>
          /\ DescriptorSound(policy.tier_config)
          /\ policy.result >= 1

\* a file whose free tier has 1 <= burst < base was rejected, and the
\* limit of the free tier was then selected
C27_Witness ==
    /\ boot.reloads = 0
    /\ boot.document.kind = "json"
    /\ "free" \in DOMAIN boot.document.data.tiers
    /\ boot.document.data.tiers["free"].burst_limit >= 1
    /\ boot.document.data.tiers["free"].burst_limit
          < boot.document.data.tiers["free"].base_limit
    /\ boot.document.data.tiers["free"].degraded_limit >= 1
    /\ boot.document.data.tiers["free"].window_minutes >= 1
    /\ boot.outcome = "load_error"
    /\ policy.calls > 0
    /\ policy.tier = "free"
    /\ policy.result >= 1

\* C28: a store operation that is abandoned, because the task awaiting it
\* is cancelled or because its deadline fires, is recorded by the circuit
\* breaker as a failure: failure_count grows by one and last_failure_time
\* becomes the time of the abandonment.
C28_AbandonedCountsAsFailure ==
    [][(call'.made /\ call'.outcome \in {"cancelled", "fail"}) =>
          /\ breaker'[call'.inst].failure_count
                = call'.before.failure_count + 1
          /\ breaker'[call'.inst].last_failure_time = now']_vars

\* the directory _load_users builds from one configuration
DirectoryOf(config) ==
    [api_key_to_user |-> config.api_keys, user_to_tier |-> config.users]

\* C29: whatever way reloads and key validations interleave, the directory
\* a validation reads holds both maps of one configuration, the one the
\* process holds: never the key map of one configuration with the tier map
\* of another, never a map partly filled. Every pair a validation returns
\* is a pair of that configuration.
C29_ReloadAtomic ==
    /\ boot.users => directory = DirectoryOf(boot.config)
    /\ validated.made =>
          /\ validated.ident = ValidateApiKey(validated.header)
          /\ validated.ident.ok =>
                LET key == Strip(validated.header.value)
                IN /\ key \in DOMAIN boot.config.api_keys
                   /\ boot.config.api_keys[key] = validated.ident.user_id
                   /\ boot.config.users[validated.ident.user_id]
                         = validated.ident.tier

\* after a reload that replaced both maps, the key that named alice, of
\* tier free, is validated as bob, of tier enterprise
C29_Witness ==
    /\ boot.reloads = 1
    /\ boot.config = SecondConfig
    /\ boot.outcome = "load_success"
    /\ validated.made
    /\ validated.header = Header(KeyAlice)
    /\ validated.ident.ok
    /\ validated.ident.user_id = "bob"
    /\ validated.ident.tier = "enterprise"

\* the INCR of an increment_security_counter call reached the abuse
\* counter of source ip in this step
AbuseIncremented(ip) ==
    /\ abuse'[ip].exists
    /\ abuse'[ip].count = (IF abuse[ip].exists THEN abuse[ip].count ELSE 0) + 1
    /\ \E r \in Slots : req[r].pc = "abuse_check" /\ req[r].ip = ip
                          /\ req'[r].pc # "abuse_check"

\* C30: the increment that creates a source's abuse counter gives it the
\* expiry of AbuseWindowMinutes from then, every later increment leaves
\* the expiry as it is, and so every abuse counter in the store expires
\* AbuseWindowMinutes after the attempt that created it, however many
\* attempts follow.
C30_TtlOnFirstIncrementOnly ==
    /\ [][\A ip \in IPs : AbuseIncremented(ip) =>
            IF abuse[ip].exists
            THEN abuse'[ip].expireAt = abuse[ip].expireAt
            ELSE abuse'[ip].expireAt
                    = now + AbuseWindowMinutes * SecondsPerMinute]_vars
    /\ [](\A ip \in IPs : abuse[ip].exists => abuse[ip].expireAt # NoExpiry)

\* the count a counter key stands for: a missing key counts 0
CountOf(entry) == IF entry.exists THEN entry.count ELSE 0

\* request r, whose identity resolution failed, gets the answer of
\* check_invalid_key_attempts in this step
LeavesAbuseCheck(r) ==
    /\ req[r].pc = "abuse_check"
    /\ req'[r].pc # "abuse_check"

LeavesRateEval(r) ==
    /\ req[r].pc = "rate_eval"
    /\ req'[r].pc = "idle"

\* C32: a window script that admits adds one to the count, which stays
\* within the limit the call passed, and sets the key's expiry to
\* window_seconds + 1 from then; one that rejects leaves the key as it is;
\* so every window key in the store expires no earlier than one second
\* after the end of its window and its count is never above the largest
\* limit of its identity's tier.
C32_WindowKeyTtlAndCount ==
    /\ [][\A r \in Slots : LeavesRateEval(r) =>
            LET u == req[r].ident.user_id
                w == ClockWindow(req[r].t0)
                old == CounterAt(u, w)
                new == counters'[u][w]
                admitted == /\ new.exists
                            /\ new.count = CountOf(old) + 1
                            /\ new.count <= req[r].limit
                            /\ new.expireAt = now + SecondsPerMinute + 1
            IN /\ new = old \/ admitted
               /\ (StoreAnswered(last') /\ last'.dec.allowed) => admitted
               /\ (StoreAnswered(last') /\ ~last'.dec.allowed) =>
                     /\ new = old
                     /\ CountOf(old) >= req[r].limit
               /\ \A v \in WindowStarts \ {w} :
                     counters'[u][v] = counters[u][v]]_vars
    /\ [](\A u \in Users, w \in WindowStarts :
            counters[u][w].exists =>
               /\ counters[u][w].expireAt >= w + SecondsPerMinute + 1
               /\ counters[u][w].count
                     <= TierTable[UserToTier[u]].burst_limit)

\* the store rejected a request of an identity whose window key holds the
\* limit and still has its expiry
C32_Witness ==
    /\ StoreAnswered(last)
    /\ ~last.dec.allowed
    /\ counters[last.ident.user_id][last.dec.window_start].exists
    /\ counters[last.ident.user_id][last.dec.window_start].count
          = last.dec.limit
    /\ counters[last.ident.user_id][last.dec.window_start].expireAt
          > last.dec.reset_time

\* C33: however store calls overlap, the breaker never goes from open to
\* closed in one step, and a call that succeeds while the breaker is open
\* (it was let through before the breaker opened) leaves the breaker open
\* with its failure count as it was.
C33_ClosesThroughHalfOpenOnly ==
    /\ [][\A i \in Instances :
            breaker[i].state = "open" => breaker'[i].state # "closed"]_vars
    /\ []((CallEnded /\ call.outcome = "ok" /\ call.before.state = "open") =>
            /\ breaker[call.inst].state = "open"
            /\ breaker[call.inst].failure_count = call.before.failure_count)

\* C34: when from some point on the store answers every call it receives,
\* and callers keep calling, the breaker is closed from some point on for
\* good.
C34_BreakerRecovers ==
    <>[]storeUp => <>[](breaker[1].state = "closed")

\* after an outage that opened the breaker, at the last instant of the
\* clock, the store is up and the call let through after the reset timeout
\* has closed the breaker
C34_Witness ==
    /\ storeUp
    /\ now = StartTime + ResetTimeout + 2
    /\ CallEnded
    /\ call.outcome = "ok"
    /\ call.before.state = "half-open"
    /\ call.before.failure_count >= FailureThreshold
    /\ breaker[1].state = "closed"

\* C35: the answer of a health fetch that failed, or that the open breaker
\* refused, is never put into an instance's health cache, and so no health
\* read is answered from the cache with that fallback: the read after a
\* failed one goes to the store again.
C35_FailedFetchNotCached ==
    /\ \A i \in Instances : healthCache[i].data.updated_by # "fallback"
    /\ \A h \in HealthUses : h.hit => h.updated_by # "fallback"

\* C36: a health write made without ttl_seconds stays in force until the
\* next write: once it has succeeded the stored health is the written
\* status and carries no expiry, whatever expiry an earlier write had set.
C36_TtlLessWriteStays ==
    (write.made /\ write.outcome = "ok" /\ write.ttl_seconds = 0) =>
        /\ healthKey.exists
        /\ healthKey.status = write.status
        /\ healthKey.expireAt = NoExpiry

\* C37: for every tier name and every descriptor TierConfig accepts, the
\* limit selected under DEGRADED is at most the limit selected under NORMAL.
C37_SheddingNeverRaises ==
    (policy.calls > 0 /\ policy.system_health = "DEGRADED") =>
        policy.result <= CalculateEffectiveLimit(
                             policy.tier, policy.tier_config, "NORMAL")

\* C38: in every state of the store, an abuse counter that exists carries
\* an expiry that is still ahead, however an increment_security_counter
\* call ended between its round trips.
C38_AbuseCounterHasTtl ==
    \A ip \in IPs :
        abuse[ip].exists =>
            /\ abuse[ip].expireAt # NoExpiry
            /\ abuse[ip].expireAt > now

\* C39: a reload that finds the configuration file missing, not JSON or
\* holding data that fails validation leaves the configuration and the
\* directory as they were, so that every key resolves as before.
C39_FailedReloadKeepsConfig ==
    [][(/\ boot'.reloads = boot.reloads + 1
        /\ \/ boot'.document.kind = "absent"
           \/ InvalidDocument(boot'.document)) =>
          /\ boot'.config = boot.config
          /\ directory' = directory]_vars

\* the identity the configured directory binds to the key of a header
BoundIdentity(key) == ApiKeyToUser[key.value]

\* C40: a request is counted under the identity the directory binds to its
\* key, so under alice's for either of her keys; the window script of a
\* request changes no counter but the one of that identity for the minute
\* in which the request read the time, and adds one to it when the store
\* answers that the request is admitted; no other step changes a counter.
C40_CountersPerIdentity ==
    /\ [][\A r \in Slots, ip \in IPs : \A key \in KeysShare(r) :
            (Arrive(r, r, ip, PathApi, key) /\ req'[r].pc # "idle") =>
                req'[r].ident.user_id = BoundIdentity(key)]_vars
    /\ [][\A r \in Slots :
            LeavesRateEval(r) =>
                LET u == req[r].ident.user_id
                    w == ClockWindow(req[r].t0)
                IN /\ \A v \in Users \ {u} : counters'[v] = counters[v]
                   /\ \A x \in WindowStarts \ {w} :
                         counters'[u][x] = counters[u][x]
                   /\ (StoreAnswered(last') /\ last'.dec.allowed) =>
                         /\ counters'[u][w].exists
                         /\ counters'[u][w].count = CountOf(counters[u][w]) + 1
                         /\ last'.dec.count = counters'[u][w].count]_vars
    /\ [][(\A r \in Slots : ~LeavesRateEval(r)) =>
            counters' = counters]_vars

\* instance 2 is answered, without any store call having failed, that a
\* request of alice is admitted as the second of its window, when instance 1
\* has fetched the health and has no request left: the first of the window
\* was sent with her first key and this one with her second, while bob's
\* counter holds the one request made with his key
C40_Witness ==
    /\ StoreAnswered(last)
    /\ last.dec.allowed
    /\ last.inst = 2
    /\ last.ident.user_id = "alice"
    /\ last.dec.count = 2
    /\ counters["alice"][last.dec.window_start].count = 2
    /\ counters["bob"][last.dec.window_start].count = 1
    /\ faultsLeft = MaxFaults
    /\ healthCache[1] # ColdCache
    /\ req[1].pc = "idle"
    /\ Len(grants["alice"][last.dec.window_start]) = 2

====
